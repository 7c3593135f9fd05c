---------------------------- MODULE ServerProofs ----------------------------
(***************************************************************************)
(* Theorems about Server, for every set of uuids, feeds and images, every  *)
(* size and limit: while no statement fails, the data pool is transparent. *)
(* A consistent pool knows every live uuid, also after restarts; and while *)
(* the server runs, no getter throws and what senders and the client see   *)
(* is the store and the journal alone.                                     *)
(***************************************************************************)
EXTENDS Server, FiniteSetTheorems, TLAPS

(* No statement raises SQLException.                                       *)
Reliable == ~SqlMayFail

-----------------------------------------------------------------------------
(* Rows, maps and the connection                                           *)

FeedMap        == [UUID -> FeedRow \cup {NoRow}]
FeedConnection == [pool : FeedMap, table : FeedMap, cleaner : BOOLEAN]
ImageMap       == [UUID -> Images \cup {NoData}]

LEMMA OverlayEmpty ==
  ASSUME NEW m \in FeedMap
  PROVE  EmptyMap \in FeedMap /\ Overlay(EmptyMap, m) = m
BY DEF FeedMap, EmptyMap, Overlay

LEMMA ContentType ==
  ASSUME NEW d \in FeedConnection
  PROVE  Content(d) \in FeedMap
BY DEF FeedConnection, FeedMap, Content, Overlay

(* A flush changes nothing a reader sees, and stores all of it.            *)
LEMMA FlushKeeps ==
  ASSUME Reliable, NEW d \in FeedConnection, NEW f \in Flush(d)
  PROVE  f \in FeedConnection /\ Content(f) = Content(d) /\ f.table = Content(d)
<1>1. CASE d.pool = EmptyMap
  BY <1>1, OverlayEmpty DEF Flush, Content, FeedConnection
<1>2. CASE d.pool # EmptyMap
  <2>1. f = [d EXCEPT !.pool = EmptyMap, !.table = Content(d)]
    BY <1>2 DEF Flush, Reliable
  <2>2. Content(d) \in FeedMap /\ EmptyMap \in FeedMap
    BY ContentType DEF FeedMap, EmptyMap
  <2>3. f \in FeedConnection /\ f.table = Content(d) /\ f.pool = EmptyMap
    BY <2>1, <2>2 DEF FeedConnection
  <2>4. QED
    BY <2>2, <2>3, OverlayEmpty DEF Content
<1>3. QED
  BY <1>1, <1>2

(* A push changes what a reader sees of one uuid.                          *)
LEMMA PushStores ==
  ASSUME Reliable, NEW d \in FeedConnection, NEW u \in UUID, NEW r \in FeedRow,
         NEW e \in PushDataToDb(d, u, r)
  PROVE  e \in FeedConnection /\ Content(e) = [Content(d) EXCEPT ![u] = r]
<1> DEFINE pooled == [d EXCEPT !.pool[u] = r]
<1>1. pooled \in FeedConnection /\ [pooled EXCEPT !.cleaner = TRUE] \in FeedConnection
  BY DEF FeedConnection, FeedMap
<1>2. Content(pooled) = [Content(d) EXCEPT ![u] = r]
  BY RowAssumption DEF FeedConnection, FeedMap, Content, Overlay
<1>3. Content([pooled EXCEPT !.cleaner = TRUE]) = Content(pooled)
  BY <1>1 DEF Content, FeedConnection
<1>4. e \in Flush(pooled) \/ e = [pooled EXCEPT !.cleaner = TRUE]
  BY DEF PushDataToDb
<1> HIDE DEF pooled
<1>5. QED
  BY <1>1, <1>2, <1>3, <1>4, FlushKeeps

LEMMA CronKeeps ==
  ASSUME Reliable, NEW d \in FeedConnection, NEW e \in CronJob(d)
  PROVE  e \in FeedConnection /\ Content(e) = Content(d)
<1>1. PICK f \in Flush(d) : e = [f EXCEPT !.cleaner = FALSE]
  BY DEF CronJob
<1>2. f \in FeedConnection /\ Content(f) = Content(d)
  BY FlushKeeps
<1>3. QED
  BY <1>1, <1>2 DEF FeedConnection, Content

(* areThereKey knows.                                                      *)
LEMMA KeyIsKnown ==
  ASSUME Reliable, NEW d \in FeedConnection, NEW u \in UUID
  PROVE  AreThereKey(d, u) = {Live(Content(d)[u])}
BY DEF AreThereKey, Live, Content, Overlay, SqlOk, Reliable, FeedConnection, FeedMap, FeedRow

-----------------------------------------------------------------------------
(* Entries of the data pool                                                *)

(* The feed of an entry is what row says: an entry in M or MS has it, any  *)
(* other has none, and U is that of a deleted uuid alone.                  *)
FeedAgrees(e, row) ==
  /\ Live(row) <=> ~e.isDelete
  /\ e.feed_state \in {"M", "MS"} => e.feedData = row.feed
  /\ e.feed_state \in {"I", "U"} => e.feedData = NoData
  /\ e.feed_state = "U" <=> e.isDelete

(* Its image is the file: in M it is cached, in I only on disk, in U there *)
(* is none.                                                                *)
ImageAgrees(e, image) ==
  /\ e.image_state # "MS"
  /\ e.image_state = "M" => e.imageData = image
  /\ e.image_state # "M" => e.imageData = NoData
  /\ e.image_state = "U" <=> image = NoData

Storage == [UUID -> MacroData \cup {NoRow}]

(* The size that is counted is left open: no entry depends on it.          *)
PoolRecord(d) ==
  /\ DOMAIN d = {"storage", "consistent", "amountSize"}
  /\ d.storage \in Storage /\ d.consistent \in BOOLEAN
  /\ d = [x \in DOMAIN d |-> d[x]]

(* The pool d agrees with rows and images, but for the feeds of X.         *)
Agree(d, rows, images, X) ==
  /\ PoolRecord(d)
  /\ \A u \in UUID : d.storage[u] # NoRow =>
       /\ ImageAgrees(d.storage[u], images[u])
       /\ u \notin X => FeedAgrees(d.storage[u], rows[u])

LEMMA EntryType ==
  ASSUME NEW e \in MacroData
  PROVE  /\ e.feedData \in Feeds \cup {NoData} /\ e.imageData \in Images \cup {NoData}
         /\ e.feed_state \in COH_STATE /\ e.image_state \in COH_STATE /\ e.isDelete \in BOOLEAN
         /\ e # NoRow
BY EntryAssumption DEF MacroData

LEMMA PoolUpdate ==
  ASSUME NEW d, PoolRecord(d), NEW s \in Storage, NEW n
  PROVE  LET e == [d EXCEPT !.storage = s, !.amountSize = n]
         IN  PoolRecord(e) /\ e.storage = s /\ e.consistent = d.consistent
BY DEF PoolRecord

(* Eviction leaves an entry without data where it had it, and alone where  *)
(* it is not among the evicted.                                            *)
LEMMA EvictedEntry ==
  ASSUME NEW d, PoolRecord(d), NEW P \in SUBSET ImagesIn(d), NEW Q \in SUBSET FeedsIn(d, {"M", "MS"}),
         NEW u \in UUID, d.storage[u] # NoRow
  PROVE  LET e == d.storage[u]
             f == Evicted(d, P, Q).storage[u]
         IN  /\ f \in MacroData /\ f.isDelete = e.isDelete
             /\ u \in P    => f.image_state = "I" /\ f.imageData = NoData
             /\ u \notin P => f.image_state = e.image_state /\ f.imageData = e.imageData
             /\ u \in Q    => f.feed_state = "I" /\ f.feedData = NoData
             /\ u \notin Q => f.feed_state = e.feed_state /\ f.feedData = e.feedData
<1> DEFINE e == d.storage[u]
           e1 == IF u \in P THEN [e EXCEPT !.image_state = "I", !.imageData = NoData] ELSE e
           e2 == IF u \in Q THEN [e1 EXCEPT !.feed_state = "I", !.feedData = NoData] ELSE e1
<1>1. e \in MacroData
  BY DEF PoolRecord, Storage
<1>2. e1 \in MacroData
  BY <1>1 DEF MacroData, COH_STATE
<1>3. e2 \in MacroData
  BY <1>2 DEF MacroData, COH_STATE
<1>4. Evicted(d, P, Q).storage[u] = e2
  BY DEF Evicted, PoolRecord
<1>5. QED
  BY <1>1, <1>2, <1>3, <1>4 DEF MacroData

LEMMA EvictedRecord ==
  ASSUME NEW d, PoolRecord(d), NEW P \in SUBSET ImagesIn(d), NEW Q \in SUBSET FeedsIn(d, {"M", "MS"})
  PROVE  /\ PoolRecord(Evicted(d, P, Q)) /\ Evicted(d, P, Q).consistent = d.consistent
         /\ \A u \in UUID : Evicted(d, P, Q).storage[u] = NoRow <=> d.storage[u] = NoRow
<1> DEFINE f == Evicted(d, P, Q)
<1>1. DOMAIN f = DOMAIN d /\ f.consistent = d.consistent /\ f = [x \in DOMAIN f |-> f[x]]
  BY DEF Evicted, PoolRecord
<1>2. \A u \in UUID : d.storage[u] # NoRow => f.storage[u] \in MacroData
  BY EvictedEntry
<1>3. \A u \in UUID : d.storage[u] = NoRow => f.storage[u] = NoRow
  BY DEF Evicted, PoolRecord, ImagesIn, FeedsIn, Keys
<1>4. f.storage = [u \in UUID |-> f.storage[u]]
  BY DEF Evicted, PoolRecord
<1>5. f.storage \in Storage
  <2> HIDE DEF f
  <2>1. QED
    BY <1>2, <1>3, <1>4 DEF Storage
<1>6. QED
  BY <1>1, <1>2, <1>3, <1>5, EntryType DEF PoolRecord

LEMMA EvictedAgrees ==
  ASSUME NEW d, NEW rows, NEW images, NEW X, Agree(d, rows, images, X),
         images \in ImageMap,
         NEW P \in SUBSET ImagesIn(d), NEW Q \in SUBSET FeedsIn(d, {"M", "MS"})
  PROVE  Agree(Evicted(d, P, Q), rows, images, X)
<1>1. PoolRecord(d)
  BY DEF Agree
<1>2. ASSUME NEW u \in UUID, d.storage[u] # NoRow
      PROVE  /\ ImageAgrees(Evicted(d, P, Q).storage[u], images[u])
             /\ u \notin X => FeedAgrees(Evicted(d, P, Q).storage[u], rows[u])
  <2> DEFINE e == d.storage[u]
             f == Evicted(d, P, Q).storage[u]
  <2>1. /\ f.isDelete = e.isDelete
        /\ u \in P    => f.image_state = "I" /\ f.imageData = NoData
        /\ u \notin P => f.image_state = e.image_state /\ f.imageData = e.imageData
        /\ u \in Q    => f.feed_state = "I" /\ f.feedData = NoData
        /\ u \notin Q => f.feed_state = e.feed_state /\ f.feedData = e.feedData
    BY <1>1, <1>2, EvictedEntry
  <2>2. /\ u \in P => e.image_state = "M" /\ e.image_state # "U"
        /\ u \in Q => e.feed_state \in {"M", "MS"}
    BY DEF ImagesIn, FeedsIn
  <2>3. ImageAgrees(e, images[u]) /\ (u \notin X => FeedAgrees(e, rows[u]))
    BY <1>2 DEF Agree
  <2> HIDE DEF e, f
  <2>4. ImageAgrees(f, images[u])
    BY <2>1, <2>2, <2>3 DEF ImageAgrees
  <2>5. u \notin X => FeedAgrees(f, rows[u])
    BY <2>1, <2>2, <2>3 DEF FeedAgrees
  <2>6. QED
    BY <2>4, <2>5 DEF f
<1>3. QED
  BY <1>1, <1>2, EvictedRecord DEF Agree

-----------------------------------------------------------------------------
(* The methods of the data pool                                            *)

(* Rows that differ in u alone.                                            *)
SameBut(a, b, u) == \A v \in UUID \ {u} : a[v] = b[v]

LEMMA EvictForFeedAgrees ==
  ASSUME NEW d, NEW rows, NEW images \in ImageMap, NEW X, Agree(d, rows, images, X),
         NEW space, NEW e \in EvictForFeed(d, space)
  PROVE  /\ Agree(e, rows, images, X) /\ e.consistent = d.consistent
         /\ \A u \in UUID : e.storage[u] = NoRow <=> d.storage[u] = NoRow
         /\ \A u \in UUID : d.storage[u] # NoRow /\ u \notin FeedsIn(d, {"MS"}) =>
              /\ e.storage[u].isDelete = d.storage[u].isDelete
              /\ e.storage[u].feed_state = d.storage[u].feed_state
              /\ e.storage[u].feedData = d.storage[u].feedData
<1>1. PICK P \in SUBSET ImagesIn(d), Q \in SUBSET FeedsIn(d, {"MS"}) : e = Evicted(d, P, Q)
  BY DEF EvictForFeed
<1>2. Q \in SUBSET FeedsIn(d, {"M", "MS"})
  BY DEF FeedsIn
<1>3. PoolRecord(d)
  BY DEF Agree
<1>4. Agree(e, rows, images, X)
  BY <1>1, <1>2, EvictedAgrees
<1>5. e.consistent = d.consistent /\ \A u \in UUID : e.storage[u] = NoRow <=> d.storage[u] = NoRow
  BY <1>1, <1>2, <1>3, EvictedRecord
<1>6. ASSUME NEW u \in UUID, d.storage[u] # NoRow, u \notin FeedsIn(d, {"MS"})
      PROVE  /\ e.storage[u].isDelete = d.storage[u].isDelete
             /\ e.storage[u].feed_state = d.storage[u].feed_state
             /\ e.storage[u].feedData = d.storage[u].feedData
  BY <1>1, <1>2, <1>3, <1>6, EvictedEntry
<1>7. QED
  BY <1>4, <1>5, <1>6

MadeFor(e, d, u, onDisk) == e = IF IsIdExist(d, u) THEN d.storage[u] ELSE NewMacroData(onDisk)
Entered(entry, d, u, e)  == entry = [d EXCEPT !.storage[u] = [e EXCEPT !.isDelete = FALSE]]

(* The entry addData works on, without data of its feed.                   *)
LEMMA EntryMade ==
  ASSUME NEW d, NEW rows, NEW images \in ImageMap, Agree(d, rows, images, {}), NEW u \in UUID,
         NEW e, MadeFor(e, d, u, images[u] # NoData), NEW entry, Entered(entry, d, u, e)
  PROVE  /\ Agree(entry, rows, images, {u}) /\ entry.consistent = d.consistent
         /\ entry.storage[u] # NoRow /\ ~entry.storage[u].isDelete
         /\ entry.storage[u].feed_state \in {"I", "U"} => entry.storage[u].feedData = NoData
         /\ SameBut(entry.storage, d.storage, u)
<1> DEFINE f == [e EXCEPT !.isDelete = FALSE]
<1>1. PoolRecord(d)
  BY DEF Agree
<1>2. e \in MacroData /\ ImageAgrees(e, images[u]) /\ (e.feed_state \in {"I", "U"} => e.feedData = NoData)
  <2>1. CASE IsIdExist(d, u)
    BY <1>1, <2>1 DEF MadeFor, IsIdExist, Agree, FeedAgrees, PoolRecord, Storage
  <2>2. CASE ~IsIdExist(d, u)
    BY <2>2 DEF MadeFor, NewMacroData, MacroData, COH_STATE, ImageAgrees
  <2>3. QED
    BY <2>1, <2>2
<1>3. /\ f \in MacroData /\ f # NoRow /\ ~f.isDelete /\ ImageAgrees(f, images[u])
      /\ f.feed_state \in {"I", "U"} => f.feedData = NoData
  BY <1>2, EntryAssumption DEF MacroData, ImageAgrees
<1> HIDE DEF f
<1>4. PoolRecord(entry) /\ entry.consistent = d.consistent /\ entry.storage = [d.storage EXCEPT ![u] = f]
  BY <1>1, <1>3 DEF PoolRecord, Storage, Entered, f
<1>5. entry.storage[u] = f /\ \A v \in UUID \ {u} : entry.storage[v] = d.storage[v]
  BY <1>1, <1>4 DEF PoolRecord, Storage
<1>6. Agree(entry, rows, images, {u})
  BY <1>3, <1>4, <1>5 DEF Agree
<1>7. QED
  BY <1>3, <1>4, <1>5, <1>6 DEF SameBut

LEMMA OldFeedEvicted ==
  ASSUME NEW d, NEW rows, NEW images \in ImageMap, NEW u \in UUID, Agree(d, rows, images, {u}),
         d.storage[u] # NoRow, ~d.storage[u].isDelete,
         d.storage[u].feed_state \in {"I", "U"} => d.storage[u].feedData = NoData
  PROVE  LET e == EvictFeedMtoI(d, u)
         IN  /\ Agree(e, rows, images, {u}) /\ e.consistent = d.consistent
             /\ \A v \in UUID : e.storage[v] = NoRow <=> d.storage[v] = NoRow
             /\ ~e.storage[u].isDelete /\ e.storage[u].feedData = NoData
             /\ e.storage[u].feed_state \in {"I", "U"}
<1> DEFINE Q == {u} \cap FeedsIn(d, {"M", "MS"})
           e == Evicted(d, {}, Q)
<1>1. PoolRecord(d) /\ EvictFeedMtoI(d, u) = e
  BY DEF Agree, EvictFeedMtoI
<1>2. Q \in SUBSET FeedsIn(d, {"M", "MS"}) /\ {} \in SUBSET ImagesIn(d)
  OBVIOUS
<1>3. u \in Q <=> d.storage[u].feed_state \in {"M", "MS"}
  BY DEF FeedsIn, Keys
<1> HIDE DEF Q
<1>4. Agree(e, rows, images, {u})
  BY <1>2, EvictedAgrees
<1>5. e.consistent = d.consistent /\ \A v \in UUID : e.storage[v] = NoRow <=> d.storage[v] = NoRow
  BY <1>1, <1>2, EvictedRecord
<1>6. /\ e.storage[u].isDelete = d.storage[u].isDelete
      /\ u \in Q    => e.storage[u].feed_state = "I" /\ e.storage[u].feedData = NoData
      /\ u \notin Q => e.storage[u].feed_state = d.storage[u].feed_state
                       /\ e.storage[u].feedData = d.storage[u].feedData
  BY <1>1, <1>2, EvictedEntry
<1>7. d.storage[u].feed_state \in COH_STATE
  BY <1>1, EntryType DEF PoolRecord, Storage
<1> HIDE DEF e
<1>8. ~e.storage[u].isDelete /\ e.storage[u].feedData = NoData /\ e.storage[u].feed_state \in {"I", "U"}
  BY <1>3, <1>6, <1>7 DEF COH_STATE
<1>9. QED
  BY <1>1, <1>4, <1>5, <1>8

(* e is d with the entry of u written over, whatever is counted.           *)
WrittenOver(e, d, u, f) ==
  /\ DOMAIN e = DOMAIN d /\ e.consistent = d.consistent /\ e = [x \in DOMAIN e |-> e[x]]
  /\ e.storage = [d.storage EXCEPT ![u] = f]

(* One entry is written over, and agrees with the rows and images it is    *)
(* to agree with.                                                          *)
LEMMA EntrySet ==
  ASSUME NEW d, NEW rows, NEW images, NEW u \in UUID, NEW X \in SUBSET {u}, Agree(d, rows, images, X),
         NEW next, SameBut(next, rows, u), NEW after, SameBut(after, images, u),
         NEW f \in MacroData, FeedAgrees(f, next[u]), ImageAgrees(f, after[u]),
         NEW e, WrittenOver(e, d, u, f)
  PROVE  /\ Agree(e, next, after, {}) /\ e.consistent = d.consistent
         /\ e.storage[u] # NoRow /\ SameBut(e.storage, d.storage, u)
<1>1. PoolRecord(d)
  BY DEF Agree
<1>2. e.storage \in Storage /\ e.storage[u] = f /\ \A v \in UUID \ {u} : e.storage[v] = d.storage[v]
  BY <1>1 DEF Storage, PoolRecord, WrittenOver
<1>3. ASSUME NEW v \in UUID, e.storage[v] # NoRow
      PROVE  ImageAgrees(e.storage[v], after[v]) /\ FeedAgrees(e.storage[v], next[v])
  <2>1. CASE v = u
    BY <1>2, <2>1
  <2>2. CASE v # u
    BY <1>2, <1>3, <2>2 DEF Agree, SameBut
  <2>3. QED
    BY <2>1, <2>2
<1>4. PoolRecord(e)
  BY <1>1, <1>2 DEF PoolRecord, WrittenOver
<1>5. QED
  BY <1>2, <1>3, <1>4, EntryType DEF Agree, WrittenOver, SameBut

LEMMA StoreFeedAgrees ==
  ASSUME NEW d, NEW rows, NEW images \in ImageMap, NEW u \in UUID, Agree(d, rows, images, {u}),
         d.storage[u] # NoRow, ~d.storage[u].isDelete, d.storage[u].feedData = NoData,
         NEW feed \in Feeds, NEW next, SameBut(next, rows, u),
         next[u] = [feed |-> feed, isDelete |-> FALSE]
  PROVE  LET e == StoreFeed(d, u, feed)
         IN  /\ Agree(e, next, images, {}) /\ e.consistent = d.consistent
             /\ \A v \in UUID : e.storage[v] = NoRow <=> d.storage[v] = NoRow
<1> DEFINE e == StoreFeed(d, u, feed)
           old == d.storage[u]
           f == IF Fits(d, Size[feed]) THEN [old EXCEPT !.feed_state = "M", !.feedData = feed]
                ELSE [old EXCEPT !.feed_state = "I"]
<1>1. PoolRecord(d) /\ old \in MacroData /\ ImageAgrees(old, images[u])
  BY DEF Agree, PoolRecord, Storage
<1>2. /\ f \in MacroData /\ ImageAgrees(f, images[u]) /\ ~f.isDelete
      /\ (f.feed_state = "M" /\ f.feedData = feed) \/ (f.feed_state = "I" /\ f.feedData = NoData)
  <2> HIDE DEF old
  <2>1. QED
    BY <1>1 DEF MacroData, COH_STATE, ImageAgrees, old
<1>3. WrittenOver(e, d, u, f)
  BY <1>1 DEF StoreFeed, PoolRecord, Storage, WrittenOver
<1> HIDE DEF e, f, old
<1>4. FeedAgrees(f, next[u])
  <2>1. next[u] \in FeedRow /\ next[u].feed = feed /\ ~next[u].isDelete
    BY DEF FeedRow
  <2>2. Live(next[u])
    BY <2>1, RowAssumption DEF Live
  <2>3. QED
    BY <1>2, <2>1, <2>2 DEF FeedAgrees
<1> DEFINE X == {u}
<1>5. SameBut(images, images, u) /\ X \in SUBSET {u} /\ Agree(d, rows, images, X)
  BY DEF SameBut
<1>a. f \in MacroData /\ ImageAgrees(f, images[u])
  BY <1>2
<1> HIDE DEF X
<1>6. /\ Agree(e, next, images, {}) /\ e.consistent = d.consistent
      /\ e.storage[u] # NoRow /\ SameBut(e.storage, d.storage, u)
  BY <1>a, <1>3, <1>4, <1>5, EntrySet
<1>7. QED
  BY <1>6 DEF e, SameBut

LEMMA AddFeedAgrees ==
  ASSUME NEW d, NEW rows, NEW images \in ImageMap, NEW u \in UUID, Agree(d, rows, images, {}),
         NEW feed \in Feeds, NEW next, SameBut(next, rows, u),
         next[u] = [feed |-> feed, isDelete |-> FALSE],
         NEW e \in AddFeed(d, u, feed, images[u] # NoData)
  PROVE  /\ Agree(e, next, images, {})
         /\ e.consistent => d.consistent /\ e.storage[u] # NoRow
         /\ \A v \in UUID : d.storage[v] # NoRow => e.storage[v] # NoRow
<1>1. CASE ~IsIdExist(d, u) /\ Cardinality(Keys(d.storage)) >= LIMITKEY
  <2>1. e = [d EXCEPT !.consistent = FALSE]
    BY <1>1 DEF AddFeed
  <2>2. PoolRecord(e) /\ e.storage = d.storage /\ ~e.consistent
    BY <2>1 DEF Agree, PoolRecord
  <2>3. d.storage[u] = NoRow
    BY <1>1 DEF IsIdExist
  <2>4. Agree(e, next, images, {})
    BY <2>2, <2>3 DEF Agree, SameBut
  <2>5. QED
    BY <2>2, <2>4
<1>2. CASE ~(~IsIdExist(d, u) /\ Cardinality(Keys(d.storage)) >= LIMITKEY)
  <2> DEFINE macro == IF IsIdExist(d, u) THEN d.storage[u] ELSE NewMacroData(images[u] # NoData)
             entry == [d EXCEPT !.storage[u] = [macro EXCEPT !.isDelete = FALSE]]
             own   == EvictFeedMtoI(entry, u)
  <2>1. PICK f \in EvictForFeed(own, Size[feed]) : e = StoreFeed(f, u, feed)
    BY <1>2 DEF AddFeed
  <2>b. MadeFor(macro, d, u, images[u] # NoData) /\ Entered(entry, d, u, macro)
    BY DEF MadeFor, Entered
  <2> HIDE DEF macro, entry
  <2>2. /\ Agree(entry, rows, images, {u}) /\ entry.consistent = d.consistent
        /\ entry.storage[u] # NoRow /\ ~entry.storage[u].isDelete
        /\ entry.storage[u].feed_state \in {"I", "U"} => entry.storage[u].feedData = NoData
        /\ SameBut(entry.storage, d.storage, u)
    BY <2>b, EntryMade
  <2>3. /\ Agree(own, rows, images, {u}) /\ own.consistent = entry.consistent
        /\ \A v \in UUID : own.storage[v] = NoRow <=> entry.storage[v] = NoRow
        /\ ~own.storage[u].isDelete /\ own.storage[u].feedData = NoData
        /\ own.storage[u].feed_state \in {"I", "U"}
    BY <2>2, OldFeedEvicted
  <2> HIDE DEF own
  <2>4. u \notin FeedsIn(own, {"MS"})
    BY <2>3 DEF FeedsIn
  <2>a. own.storage[u] # NoRow
    BY <2>2, <2>3
  <2>5. /\ Agree(f, rows, images, {u}) /\ f.consistent = own.consistent
        /\ \A v \in UUID : f.storage[v] = NoRow <=> own.storage[v] = NoRow
        /\ ~f.storage[u].isDelete /\ f.storage[u].feedData = NoData
    BY <2>1, <2>a, <2>3, <2>4, EvictForFeedAgrees
  <2>6. /\ Agree(e, next, images, {}) /\ e.consistent = f.consistent
        /\ \A v \in UUID : e.storage[v] = NoRow <=> f.storage[v] = NoRow
    BY <2>1, <2>2, <2>3, <2>5, StoreFeedAgrees
  <2>7. QED
    BY <2>2, <2>3, <2>5, <2>6 DEF SameBut
<1>3. QED
  BY <1>1, <1>2

LEMMA OwnImageEvicted ==
  ASSUME NEW d, NEW rows, NEW images \in ImageMap, NEW u \in UUID, Agree(d, rows, images, {}),
         d.storage[u] # NoRow
  PROVE  LET e == EvictImageMtoI(d, u)
         IN  /\ Agree(e, rows, images, {}) /\ e.consistent = d.consistent
             /\ \A v \in UUID : e.storage[v] = NoRow <=> d.storage[v] = NoRow
             /\ e.storage[u] \in MacroData /\ e.storage[u].imageData = NoData
<1> DEFINE P == {u} \cap ImagesIn(d)
           e == Evicted(d, P, {})
<1>1. PoolRecord(d) /\ EvictImageMtoI(d, u) = e /\ ImageAgrees(d.storage[u], images[u])
  BY DEF Agree, EvictImageMtoI
<1>2. P \in SUBSET ImagesIn(d) /\ {} \in SUBSET FeedsIn(d, {"M", "MS"})
  OBVIOUS
<1>3. u \in P <=> d.storage[u].image_state = "M"
  BY DEF ImagesIn, Keys
<1> HIDE DEF P
<1>4. Agree(e, rows, images, {})
  BY <1>2, EvictedAgrees
<1>5. e.consistent = d.consistent /\ \A v \in UUID : e.storage[v] = NoRow <=> d.storage[v] = NoRow
  BY <1>1, <1>2, EvictedRecord
<1>6. /\ e.storage[u] \in MacroData
      /\ u \in P    => e.storage[u].imageData = NoData
      /\ u \notin P => e.storage[u].imageData = d.storage[u].imageData
  BY <1>1, <1>2, EvictedEntry
<1> HIDE DEF e
<1>7. e.storage[u].imageData = NoData
  BY <1>1, <1>3, <1>6 DEF ImageAgrees
<1>8. QED
  BY <1>1, <1>4, <1>5, <1>6, <1>7

LEMMA AddImageAgrees ==
  ASSUME NEW d, NEW rows, NEW images \in ImageMap, NEW u \in UUID, Agree(d, rows, images, {}),
         d.storage[u] # NoRow, NEW image \in Images, NEW after, SameBut(after, images, u), after[u] = image
  PROVE  LET e == AddImage(d, u, image)
         IN  /\ Agree(e, rows, after, {}) /\ e.consistent = d.consistent
             /\ \A v \in UUID : e.storage[v] = NoRow <=> d.storage[v] = NoRow
<1> DEFINE own == EvictImageMtoI(d, u)
           e   == AddImage(d, u, image)
           old == own.storage[u]
           f   == IF Fits(own, Size[image]) THEN [old EXCEPT !.image_state = "M", !.imageData = image]
                  ELSE [old EXCEPT !.image_state = "I"]
<1>1. /\ Agree(own, rows, images, {}) /\ own.consistent = d.consistent
      /\ \A v \in UUID : own.storage[v] = NoRow <=> d.storage[v] = NoRow
      /\ old \in MacroData /\ old.imageData = NoData
  BY OwnImageEvicted
<1>2. PoolRecord(own) /\ FeedAgrees(old, rows[u])
  BY <1>1 DEF Agree
<1>3. WrittenOver(e, own, u, f)
  <2> HIDE DEF own
  <2>1. QED
    BY <1>2 DEF AddImage, PoolRecord, Storage, WrittenOver, own
<1> HIDE DEF own, e
<1>4. f \in MacroData /\ FeedAgrees(f, rows[u]) /\ ImageAgrees(f, after[u])
  <2> HIDE DEF old
  <2>1. f \in MacroData /\ f.feedData = old.feedData /\ f.feed_state = old.feed_state /\ f.isDelete = old.isDelete
    BY <1>1 DEF MacroData, COH_STATE
  <2>2. FeedAgrees(f, rows[u])
    BY <1>2, <2>1 DEF FeedAgrees
  <2>3. (f.image_state = "M" /\ f.imageData = image) \/ (f.image_state = "I" /\ f.imageData = NoData)
    BY <1>1 DEF MacroData
  <2>4. QED
    BY <2>1, <2>2, <2>3, DataAssumption DEF ImageAgrees
<1>5. SameBut(rows, rows, u) /\ {} \in SUBSET {u}
  BY DEF SameBut
<1> HIDE DEF f
<1>6. /\ Agree(e, rows, after, {}) /\ e.consistent = own.consistent
      /\ e.storage[u] # NoRow /\ SameBut(e.storage, own.storage, u)
  BY <1>1, <1>3, <1>4, <1>5, EntrySet
<1>7. QED
  BY <1>1, <1>6 DEF SameBut, e

LEMMA DeleteImageAgrees ==
  ASSUME NEW d, NEW rows, NEW images \in ImageMap, NEW u \in UUID, Agree(d, rows, images, {}),
         d.storage[u] # NoRow, NEW after, SameBut(after, images, u), after[u] = NoData
  PROVE  LET e == DeleteImage(d, u)
         IN  /\ Agree(e, rows, after, {}) /\ e.consistent = d.consistent
             /\ \A v \in UUID : e.storage[v] = NoRow <=> d.storage[v] = NoRow
<1> DEFINE own == EvictImageMtoI(d, u)
           e   == DeleteImage(d, u)
           old == own.storage[u]
           f   == [old EXCEPT !.image_state = "U"]
<1>1. /\ Agree(own, rows, images, {}) /\ own.consistent = d.consistent
      /\ \A v \in UUID : own.storage[v] = NoRow <=> d.storage[v] = NoRow
      /\ old \in MacroData /\ old.imageData = NoData
  BY OwnImageEvicted
<1>2. PoolRecord(own) /\ FeedAgrees(old, rows[u])
  BY <1>1 DEF Agree
<1>3. WrittenOver(e, own, u, f)
  <2> HIDE DEF own
  <2>1. QED
    BY <1>2 DEF DeleteImage, PoolRecord, Storage, WrittenOver, own
<1> HIDE DEF own, e
<1>4. f \in MacroData /\ FeedAgrees(f, rows[u]) /\ ImageAgrees(f, after[u])
  <2> HIDE DEF old
  <2>1. /\ f \in MacroData /\ f.feedData = old.feedData /\ f.feed_state = old.feed_state /\ f.isDelete = old.isDelete
        /\ f.image_state = "U" /\ f.imageData = NoData
    BY <1>1 DEF MacroData, COH_STATE
  <2>2. QED
    BY <1>2, <2>1 DEF FeedAgrees, ImageAgrees
<1>5. SameBut(rows, rows, u) /\ {} \in SUBSET {u}
  BY DEF SameBut
<1> HIDE DEF f
<1>6. /\ Agree(e, rows, after, {}) /\ e.consistent = own.consistent
      /\ e.storage[u] # NoRow /\ SameBut(e.storage, own.storage, u)
  BY <1>1, <1>3, <1>4, <1>5, EntrySet
<1>7. QED
  BY <1>1, <1>6 DEF SameBut, e

LEMMA DeleteDataAgrees ==
  ASSUME NEW d, NEW rows, NEW images \in ImageMap, NEW u \in UUID, Agree(d, rows, images, {}),
         d.storage[u] # NoRow, NEW next, SameBut(next, rows, u), ~Live(next[u]),
         NEW after, SameBut(after, images, u), after[u] = NoData
  PROVE  LET e == DeleteData(d, u)
         IN  /\ Agree(e, next, after, {}) /\ e.consistent = d.consistent
             /\ \A v \in UUID : e.storage[v] = NoRow <=> d.storage[v] = NoRow
<1> DEFINE Q    == {u} \cap FeedsIn(d, {"M", "MS"})
           fed  == EvictFeedMtoI(d, u)
           own  == EvictImageMtoI(fed, u)
           e    == DeleteData(d, u)
           old  == own.storage[u]
           f    == [old EXCEPT !.feed_state = "U", !.image_state = "U", !.isDelete = TRUE]
<1>1. PoolRecord(d) /\ fed = Evicted(d, {}, Q) /\ FeedAgrees(d.storage[u], rows[u])
  BY DEF Agree, EvictFeedMtoI
<1>2. Q \in SUBSET FeedsIn(d, {"M", "MS"}) /\ {} \in SUBSET ImagesIn(d)
  OBVIOUS
<1>3. u \in Q <=> d.storage[u].feed_state \in {"M", "MS"}
  BY DEF FeedsIn, Keys
<1> HIDE DEF Q
<1>4. /\ Agree(fed, rows, images, {}) /\ fed.consistent = d.consistent
      /\ \A v \in UUID : fed.storage[v] = NoRow <=> d.storage[v] = NoRow
  <2> DEFINE m == Evicted(d, {}, Q)
  <2>1. Agree(m, rows, images, {})
    BY <1>2, EvictedAgrees
  <2>2. /\ m.consistent = d.consistent
        /\ \A v \in UUID : m.storage[v] = NoRow <=> d.storage[v] = NoRow
    BY <1>1, <1>2, EvictedRecord
  <2>3. fed = m
    BY <1>1
  <2> HIDE DEF m, fed
  <2>4. QED
    BY <2>1, <2>2, <2>3
<1>5. fed.storage[u].feedData = NoData
  <2>1. /\ u \in Q    => fed.storage[u].feedData = NoData
        /\ u \notin Q => fed.storage[u].feedData = d.storage[u].feedData
    BY <1>1, <1>2, EvictedEntry
  <2>2. d.storage[u].feed_state \in COH_STATE
    BY <1>1, EntryType DEF PoolRecord, Storage
  <2>3. QED
    BY <1>1, <1>3, <2>1, <2>2 DEF FeedAgrees, COH_STATE
<1> HIDE DEF fed
<1>6. /\ Agree(own, rows, images, {}) /\ own.consistent = fed.consistent
      /\ \A v \in UUID : own.storage[v] = NoRow <=> fed.storage[v] = NoRow
      /\ old \in MacroData /\ old.imageData = NoData
  BY <1>4, OwnImageEvicted
<1>7. old.feedData = NoData
  <2> DEFINE P == {u} \cap ImagesIn(fed)
  <2>1. P \in SUBSET ImagesIn(fed) /\ {} \in SUBSET FeedsIn(fed, {"M", "MS"})
    OBVIOUS
  <2>2. own = Evicted(fed, P, {})
    BY DEF EvictImageMtoI
  <2>3. PoolRecord(fed) /\ fed.storage[u] # NoRow
    BY <1>4 DEF Agree
  <2> HIDE DEF P, own
  <2>4. QED
    BY <1>5, <2>1, <2>2, <2>3, EvictedEntry
<1>8. PoolRecord(own)
  BY <1>6 DEF Agree
<1>9. WrittenOver(e, own, u, f)
  <2> HIDE DEF own
  <2>1. QED
    BY <1>8 DEF DeleteData, PoolRecord, Storage, WrittenOver, own, fed
<1> HIDE DEF own, e
<1>10. f \in MacroData /\ FeedAgrees(f, next[u]) /\ ImageAgrees(f, after[u])
  <2> HIDE DEF old
  <2>1. /\ f \in MacroData /\ f.feedData = NoData /\ f.feed_state = "U" /\ f.isDelete
        /\ f.image_state = "U" /\ f.imageData = NoData
    BY <1>6, <1>7 DEF MacroData, COH_STATE
  <2>2. QED
    BY <2>1 DEF FeedAgrees, ImageAgrees
<1>11. {} \in SUBSET {u}
  OBVIOUS
<1> HIDE DEF f
<1>12. /\ Agree(e, next, after, {}) /\ e.consistent = own.consistent
       /\ e.storage[u] # NoRow /\ SameBut(e.storage, own.storage, u)
  BY <1>6, <1>9, <1>10, <1>11, EntrySet
<1>13. QED
  BY <1>4, <1>6, <1>12 DEF SameBut, e

LEMMA NotifyAgrees ==
  ASSUME NEW d, NEW rows, NEW images \in ImageMap, Agree(d, rows, images, {}), NEW fed, NEW S
  PROVE  LET e == NotifyToFree(d, fed, S)
         IN  /\ Agree(e, rows, images, {}) /\ e.consistent = d.consistent
             /\ \A v \in UUID : e.storage[v] = NoRow <=> d.storage[v] = NoRow
<1> DEFINE P == S \cap ImagesIn(d)
           m == Evicted(d, P, {})
           e == NotifyToFree(d, fed, S)
<1>1. P \in SUBSET ImagesIn(d) /\ {} \in SUBSET FeedsIn(d, {"M", "MS"}) /\ PoolRecord(d)
  BY DEF Agree
<1>2. /\ Agree(m, rows, images, {}) /\ m.consistent = d.consistent
      /\ \A v \in UUID : m.storage[v] = NoRow <=> d.storage[v] = NoRow
  BY <1>1, EvictedAgrees, EvictedRecord
<1>3. \A v \in UUID : d.storage[v] # NoRow => m.storage[v].feed_state = d.storage[v].feed_state
  BY <1>1, EvictedEntry
<1>4. e = [m EXCEPT !.storage = [u \in UUID |->
             IF u \in fed \cap FeedsIn(d, {"M"}) THEN [m.storage[u] EXCEPT !.feed_state = "MS"]
             ELSE m.storage[u]]]
  BY DEF NotifyToFree
<1> HIDE DEF m, e, P
<1>5. PoolRecord(m)
  BY <1>2 DEF Agree
<1>6. /\ DOMAIN e = DOMAIN m /\ e.consistent = m.consistent /\ e = [x \in DOMAIN e |-> e[x]]
      /\ e.storage = [u \in UUID |->
             IF u \in fed \cap FeedsIn(d, {"M"}) THEN [m.storage[u] EXCEPT !.feed_state = "MS"]
             ELSE m.storage[u]]
  BY <1>4, <1>5 DEF PoolRecord
<1>7. ASSUME NEW v \in UUID, m.storage[v] # NoRow
      PROVE  /\ e.storage[v] \in MacroData
             /\ ImageAgrees(e.storage[v], images[v]) /\ FeedAgrees(e.storage[v], rows[v])
  <2> DEFINE old == m.storage[v]
  <2>1. old \in MacroData /\ ImageAgrees(old, images[v]) /\ FeedAgrees(old, rows[v])
    BY <1>2, <1>5, <1>7 DEF Agree, PoolRecord, Storage
  <2>2. CASE v \in fed \cap FeedsIn(d, {"M"})
    <3>1. old.feed_state = "M"
      BY <1>2, <1>3, <1>7, <2>2 DEF FeedsIn
    <3>2. e.storage[v] = [old EXCEPT !.feed_state = "MS"]
      BY <1>6, <2>2
    <3> HIDE DEF old
    <3>3. QED
      BY <2>1, <3>1, <3>2 DEF MacroData, COH_STATE, ImageAgrees, FeedAgrees
  <2>3. CASE v \notin fed \cap FeedsIn(d, {"M"})
    BY <1>6, <2>1, <2>3
  <2>4. QED
    BY <2>2, <2>3
<1>8. ASSUME NEW v \in UUID, m.storage[v] = NoRow
      PROVE  e.storage[v] = NoRow
  <2>1. v \notin FeedsIn(d, {"M"})
    BY <1>2, <1>8 DEF FeedsIn, Keys
  <2>2. QED
    BY <1>6, <1>8, <2>1
<1>9. PoolRecord(e)
  <2>1. e.storage \in Storage
    <3>1. \A v \in UUID : e.storage[v] \in MacroData \cup {NoRow}
      BY <1>7, <1>8
    <3>2. e.storage = [v \in UUID |-> e.storage[v]]
      BY <1>6
    <3>3. QED
      BY <3>1, <3>2 DEF Storage
  <2>2. QED
    BY <1>5, <1>6, <2>1 DEF PoolRecord
<1>10. \A v \in UUID : e.storage[v] = NoRow <=> m.storage[v] = NoRow
  BY <1>7, <1>8, EntryType
<1>11. Agree(e, rows, images, {})
  BY <1>7, <1>9, <1>10 DEF Agree
<1>12. QED
  BY <1>2, <1>6, <1>10, <1>11 DEF e
-----------------------------------------------------------------------------
(* Without failing statements the pool is current, restarts or not         *)

(* A consistent pool knows what is live.                                   *)
Knows(d, rows) == d.consistent => \A u \in UUID : Live(rows[u]) => d.storage[u] # NoRow

CurrentInv ==
  /\ feedDb \in FeedConnection /\ disk \in ImageMap
  /\ Agree(dp, Content(feedDb), disk, {})
  /\ Knows(dp, Content(feedDb))

LEMMA CurrentInvImplies == CurrentInv => CacheIsCurrent /\ ConsistentKnowsAll
<1> SUFFICES ASSUME CurrentInv PROVE CacheIsCurrent /\ ConsistentKnowsAll
  OBVIOUS
<1>1. CacheIsCurrent
  BY DEF CurrentInv, CacheIsCurrent, Agree, ImageAgrees, FeedAgrees, Keys
<1>2. ConsistentKnowsAll
  BY DEF CurrentInv, ConsistentKnowsAll, Knows, IsIdExist
<1>3. QED
  BY <1>1, <1>2

LEMMA KnowsStill ==
  ASSUME NEW d, NEW rows, Knows(d, rows), NEW u \in UUID, NEW next, SameBut(next, rows, u), NEW e,
         e.consistent => d.consistent /\ (Live(next[u]) => e.storage[u] # NoRow),
         \A v \in UUID : d.storage[v] # NoRow => e.storage[v] # NoRow
  PROVE  Knows(e, next)
BY DEF Knows, SameBut

(* The image file is written, left alone or removed, and the pool with it. *)
ImageFollows(e, d, u, after, images) ==
  \/ e = d /\ after = images
  \/ \E image \in Images : /\ after = [images EXCEPT ![u] = image]
                           /\ e = IF IsIdExist(d, u) THEN AddImage(d, u, image) ELSE d
  \/ /\ after = [images EXCEPT ![u] = NoData]
     /\ e = IF IsIdExist(d, u) THEN DeleteImage(d, u) ELSE d

LEMMA ImageFollowsAgrees ==
  ASSUME NEW d, NEW rows, NEW images \in ImageMap, NEW u \in UUID, Agree(d, rows, images, {}),
         NEW after, NEW e, ImageFollows(e, d, u, after, images)
  PROVE  /\ after \in ImageMap /\ Agree(e, rows, after, {}) /\ e.consistent = d.consistent
         /\ \A v \in UUID : e.storage[v] = NoRow <=> d.storage[v] = NoRow
<1>1. CASE e = d /\ after = images
  BY <1>1
<1>2. ASSUME NEW x \in Images \cup {NoData}, after = [images EXCEPT ![u] = x]
      PROVE  after \in ImageMap /\ SameBut(after, images, u) /\ after[u] = x
  BY <1>2 DEF ImageMap, SameBut
<1>3. ASSUME after \in ImageMap, SameBut(after, images, u), ~IsIdExist(d, u)
      PROVE  Agree(d, rows, after, {})
  BY <1>3 DEF Agree, SameBut, IsIdExist
<1>4. ASSUME NEW image \in Images, after = [images EXCEPT ![u] = image],
             e = IF IsIdExist(d, u) THEN AddImage(d, u, image) ELSE d
      PROVE  /\ after \in ImageMap /\ Agree(e, rows, after, {}) /\ e.consistent = d.consistent
             /\ \A v \in UUID : e.storage[v] = NoRow <=> d.storage[v] = NoRow
  <2>1. after \in ImageMap /\ SameBut(after, images, u) /\ after[u] = image
    BY <1>2, <1>4
  <2>2. CASE IsIdExist(d, u)
    <3>1. e = AddImage(d, u, image) /\ d.storage[u] # NoRow
      BY <1>4, <2>2 DEF IsIdExist
    <3>2. QED
      BY <2>1, <3>1, AddImageAgrees
  <2>3. CASE ~IsIdExist(d, u)
    BY <1>3, <1>4, <2>1, <2>3
  <2>4. QED
    BY <2>2, <2>3
<1>5. ASSUME after = [images EXCEPT ![u] = NoData],
             e = IF IsIdExist(d, u) THEN DeleteImage(d, u) ELSE d
      PROVE  /\ after \in ImageMap /\ Agree(e, rows, after, {}) /\ e.consistent = d.consistent
             /\ \A v \in UUID : e.storage[v] = NoRow <=> d.storage[v] = NoRow
  <2>1. after \in ImageMap /\ SameBut(after, images, u) /\ after[u] = NoData
    BY <1>2, <1>5
  <2>2. CASE IsIdExist(d, u)
    <3>1. e = DeleteImage(d, u) /\ d.storage[u] # NoRow
      BY <1>5, <2>2 DEF IsIdExist
    <3>2. QED
      BY <2>1, <3>1, DeleteImageAgrees
  <2>3. CASE ~IsIdExist(d, u)
    BY <1>3, <1>5, <2>1, <2>3
  <2>4. QED
    BY <2>2, <2>3
<1>6. QED
  BY <1>1, <1>4, <1>5 DEF ImageFollows

(* A pool without entries agrees with everything.                          *)
LEMMA StartedAgrees ==
  ASSUME NEW table \in FeedMap, NEW d \in Started(table), NEW images
  PROVE  /\ Connected(table) \in FeedConnection /\ Content(Connected(table)) = table
         /\ Agree(d, table, images, {}) /\ Knows(d, table)
<1>1. Connected(table) \in FeedConnection /\ Content(Connected(table)) = table
  BY OverlayEmpty DEF Connected, FeedConnection, Content
<1>2. PICK c \in {FALSE, \A u \in UUID : ~Live(table[u])} :
        d = [storage |-> EmptyMap, amountSize |-> 0, consistent |-> c]
  BY DEF Started
<1>3. c \in BOOLEAN /\ (c => \A u \in UUID : ~Live(table[u]))
  OBVIOUS
<1>4. \A u \in UUID : d.storage[u] = NoRow
  BY <1>2 DEF EmptyMap
<1>5. PoolRecord(d)
  BY <1>2, <1>3 DEF PoolRecord, Storage, EmptyMap
<1>6. QED
  BY <1>1, <1>2, <1>3, <1>4, <1>5 DEF Agree, Knows

LEMMA InitCurrentInv == Init => CurrentInv
<1> SUFFICES ASSUME Init PROVE CurrentInv
  OBVIOUS
<1>1. PICK table \in [UUID -> [feed : Feeds, isDelete : {FALSE}] \cup {NoRow}] :
        /\ feedDb = Connected(table) /\ dp \in Started(table) /\ disk \in [UUID -> Images \cup {NoData}]
  BY DEF Init
<1>2. table \in FeedMap
  BY DEF FeedMap, FeedRow
<1>3. QED
  BY <1>1, <1>2, StartedAgrees DEF CurrentInv, ImageMap

(* What PUT and POST have in common: the feed becomes that of the uuid.    *)
LEMMA FeedAddedCurrentInv ==
  ASSUME CurrentInv, NEW u \in UUID, NEW feed \in Feeds, NEW d \in AddFeed(dp, u, feed, disk[u] # NoData),
         feedDb' \in FeedConnection,
         Content(feedDb') = [Content(feedDb) EXCEPT ![u] = [feed |-> feed, isDelete |-> FALSE]],
         ImageFollows(dp', d, u, disk', disk)
  PROVE  CurrentInv'
<1> DEFINE rows == Content(feedDb)
           next == Content(feedDb')
           r    == [feed |-> feed, isDelete |-> FALSE]
<1>1. rows \in FeedMap /\ disk \in ImageMap /\ Agree(dp, rows, disk, {}) /\ Knows(dp, rows)
  BY ContentType DEF CurrentInv
<1>2. SameBut(next, rows, u) /\ next[u] = r
  BY <1>1 DEF FeedMap, SameBut
<1> HIDE DEF rows, next
<1>3. /\ Agree(d, next, disk, {})
      /\ d.consistent => dp.consistent /\ d.storage[u] # NoRow
      /\ \A v \in UUID : dp.storage[v] # NoRow => d.storage[v] # NoRow
  BY <1>1, <1>2, AddFeedAgrees
<1>4. /\ disk' \in ImageMap /\ Agree(dp', next, disk', {}) /\ dp'.consistent = d.consistent
      /\ \A v \in UUID : dp'.storage[v] = NoRow <=> d.storage[v] = NoRow
  BY <1>1, <1>3, ImageFollowsAgrees
<1>5. Knows(dp', next)
  BY <1>1, <1>2, <1>3, <1>4, KnowsStill
<1>6. QED
  BY <1>4, <1>5 DEF CurrentInv, next

LEMMA PushFeedStores ==
  ASSUME Reliable, CurrentInv, NEW u \in UUID, NEW feed \in Feeds \cup {NoData}, NEW isDelete \in BOOLEAN,
         PushFeed(u, feed, isDelete)
  PROVE  /\ feedDb' \in FeedConnection
         /\ Content(feedDb') = [Content(feedDb) EXCEPT ![u] = [feed |-> feed, isDelete |-> isDelete]]
<1>1. [feed |-> feed, isDelete |-> isDelete] \in FeedRow /\ feedDb \in FeedConnection
  BY DEF FeedRow, CurrentInv
<1>2. QED
  BY <1>1, PushStores DEF PushFeed

LEMMA PostCurrentInv ==
  ASSUME Reliable, CurrentInv, NEW u \in UUID, NEW feed \in Feeds, NEW image \in Images \cup {NoData},
         Post(u, feed, image)
  PROVE  CurrentInv'
<1>1. CASE Refuse(409)
  BY <1>1 DEF Refuse, CurrentInv
<1>2. CASE /\ \E d \in AddFeed(dp, u, feed, IsThereFile(u)) :
                IF image = NoData THEN dp' = d /\ UNCHANGED disk ELSE WriteImage(d, u, image)
           /\ PushFeed(u, feed, FALSE)
  <2>1. PICK d \in AddFeed(dp, u, feed, disk[u] # NoData) :
               IF image = NoData THEN dp' = d /\ UNCHANGED disk ELSE WriteImage(d, u, image)
    BY <1>2 DEF IsThereFile
  <2>2. ImageFollows(dp', d, u, disk', disk)
    BY <2>1 DEF ImageFollows, WriteImage, SetDataToDisk
  <2>3. QED
    BY <1>2, <2>1, <2>2, PushFeedStores, FeedAddedCurrentInv
<1>3. QED
  BY <1>1, <1>2 DEF Post

(* A feed that is found in the pool is the stored one.                     *)
LEMMA SameFeedIsStored ==
  ASSUME CurrentInv, NEW u \in UUID, NEW feed \in Feeds,
         IsIdExistAndNotDeleted(dp, u), GetFeedData(dp, u) = feed
  PROVE  Content(feedDb)[u] = [feed |-> feed, isDelete |-> FALSE]
<1> DEFINE row == Content(feedDb)[u]
           e   == dp.storage[u]
<1>1. row \in FeedRow \cup {NoRow} /\ e \in MacroData /\ FeedAgrees(e, row) /\ ~e.isDelete /\ e.feedData = feed
  BY ContentType DEF CurrentInv, Agree, PoolRecord, Storage, IsIdExistAndNotDeleted, IsIdExist, GetFeedData, FeedMap
<1> HIDE DEF row, e
<1>2. e.feed_state \in {"M", "MS"}
  BY <1>1, EntryType, DataAssumption DEF FeedAgrees, COH_STATE
<1>3. row.feed = feed /\ row \in FeedRow /\ ~row.isDelete
  BY <1>1, <1>2 DEF FeedAgrees, Live
<1>4. QED
  BY <1>3 DEF FeedRow, row

LEMMA PutStores ==
  ASSUME Reliable, CurrentInv, NEW u \in UUID, NEW feed \in Feeds,
         IF IsIdExistAndNotDeleted(dp, u) /\ GetFeedData(dp, u) = feed
         THEN UNCHANGED feedDb ELSE PushFeed(u, feed, FALSE)
  PROVE  /\ feedDb' \in FeedConnection
         /\ Content(feedDb') = [Content(feedDb) EXCEPT ![u] = [feed |-> feed, isDelete |-> FALSE]]
<1>1. CASE IsIdExistAndNotDeleted(dp, u) /\ GetFeedData(dp, u) = feed
  <2>1. Content(feedDb)[u] = [feed |-> feed, isDelete |-> FALSE] /\ feedDb' = feedDb
    BY <1>1, SameFeedIsStored
  <2>2. feedDb \in FeedConnection /\ Content(feedDb) \in FeedMap
    BY ContentType DEF CurrentInv
  <2>3. QED
    BY <2>1, <2>2 DEF FeedMap
<1>2. CASE ~(IsIdExistAndNotDeleted(dp, u) /\ GetFeedData(dp, u) = feed)
  BY <1>2, PushFeedStores
<1>3. QED
  BY <1>1, <1>2

LEMMA PutCurrentInv ==
  ASSUME Reliable, CurrentInv, NEW u \in UUID, NEW feed \in Feeds, NEW imageUpdate \in BOOLEAN,
         NEW image \in Images \cup {NoData}, Put(u, feed, imageUpdate, image)
  PROVE  CurrentInv'
<1> DEFINE isSameFeed == IsIdExistAndNotDeleted(dp, u) /\ GetFeedData(dp, u) = feed
<1>1. CASE Refuse(404)
  BY <1>1 DEF Refuse, CurrentInv
<1>2. CASE /\ IF isSameFeed THEN UNCHANGED feedDb ELSE PushFeed(u, feed, FALSE)
           /\ \E d \in AddFeed(dp, u, feed, IsThereFile(u)) :
                IF ~imageUpdate
                THEN dp' = d /\ UNCHANGED disk
                ELSE IF image = NoData THEN DropImage(d, u) ELSE WriteImage(d, u, image)
  <2>1. PICK d \in AddFeed(dp, u, feed, disk[u] # NoData) :
                IF ~imageUpdate
                THEN dp' = d /\ UNCHANGED disk
                ELSE IF image = NoData THEN DropImage(d, u) ELSE WriteImage(d, u, image)
    BY <1>2 DEF IsThereFile
  <2>2. ImageFollows(dp', d, u, disk', disk)
    <3>1. CASE ~imageUpdate
      BY <2>1, <3>1 DEF ImageFollows
    <3>2. CASE imageUpdate /\ image # NoData
      BY <2>1, <3>2 DEF ImageFollows, WriteImage, SetDataToDisk
    <3>3. CASE imageUpdate /\ image = NoData
      BY <2>1, <3>3 DEF ImageFollows, DropImage, DeleteDataFromDiskIfExist
    <3>4. QED
      BY <3>1, <3>2, <3>3
  <2>3. /\ feedDb' \in FeedConnection
        /\ Content(feedDb') = [Content(feedDb) EXCEPT ![u] = [feed |-> feed, isDelete |-> FALSE]]
    BY <1>2, PutStores
  <2>4. QED
    BY <2>1, <2>2, <2>3, FeedAddedCurrentInv
<1>3. QED
  BY <1>1, <1>2 DEF Put

LEMMA DeleteCurrentInv ==
  ASSUME Reliable, CurrentInv, NEW u \in UUID, Delete(u)
  PROVE  CurrentInv'
<1> DEFINE rows == Content(feedDb)
           next == Content(feedDb')
           r    == [feed |-> NoData, isDelete |-> TRUE]
<1>1. CASE Refuse(404)
  BY <1>1 DEF Refuse, CurrentInv
<1>2. CASE /\ dp' = IF IsIdExist(dp, u) THEN DeleteData(dp, u) ELSE dp
           /\ PushFeed(u, NoData, TRUE)
           /\ DeleteDataFromDiskIfExist(u)
  <2>1. /\ rows \in FeedMap /\ disk \in ImageMap /\ Agree(dp, rows, disk, {}) /\ Knows(dp, rows)
        /\ feedDb' \in FeedConnection /\ next = [rows EXCEPT ![u] = r]
    BY <1>2, ContentType, PushFeedStores DEF CurrentInv
  <2>2. SameBut(next, rows, u) /\ ~Live(next[u])
    BY <2>1 DEF FeedMap, SameBut, Live
  <2>3. disk' \in ImageMap /\ SameBut(disk', disk, u) /\ disk'[u] = NoData
    BY <1>2, <2>1 DEF DeleteDataFromDiskIfExist, ImageMap, SameBut
  <2> HIDE DEF rows, next
  <2>4. /\ Agree(dp', next, disk', {}) /\ dp'.consistent = dp.consistent
        /\ \A v \in UUID : dp'.storage[v] = NoRow <=> dp.storage[v] = NoRow
    <3>1. CASE IsIdExist(dp, u)
      <4>1. dp' = DeleteData(dp, u) /\ dp.storage[u] # NoRow
        BY <1>2, <3>1 DEF IsIdExist
      <4>2. QED
        BY <2>1, <2>2, <2>3, <4>1, DeleteDataAgrees
    <3>2. CASE ~IsIdExist(dp, u)
      BY <1>2, <2>1, <2>2, <2>3, <3>2 DEF IsIdExist, Agree, SameBut
    <3>3. QED
      BY <3>1, <3>2
  <2>5. Knows(dp', next)
    BY <2>1, <2>2, <2>4, KnowsStill
  <2>6. QED
    BY <2>1, <2>3, <2>4, <2>5 DEF CurrentInv, next
<1>3. QED
  BY <1>1, <1>2 DEF Delete

(* A read of the table flushes the pool, and finds what a reader sees.     *)
LEMMA ReadKeeps ==
  ASSUME Reliable, NEW d \in FeedConnection, NEW asked, NEW got \in GetDataFromDb(d, asked)
  PROVE  /\ got.db \in FeedConnection /\ Content(got.db) = Content(d)
         /\ got.result = Taken(Content(d), asked, asked)
<1>1. PICK f \in Flush(d), P \in Reached(asked) : got = [db |-> f, result |-> Taken(f.table, asked, P)]
  BY DEF GetDataFromDb
<1>2. P = asked
  BY DEF Reached, Reliable
<1>3. f \in FeedConnection /\ Content(f) = Content(d) /\ f.table = Content(d)
  BY FlushKeeps
<1>4. QED
  BY <1>1, <1>2, <1>3

LEMMA RecruitCurrentInv ==
  ASSUME Reliable, CurrentInv, Recruit
  PROVE  CurrentInv'
<1> DEFINE rows == Content(feedDb)
<1>1. PICK got \in GetDataFromDb(feedDb, FromDb(batch')) : feedDb' = got.db
  BY DEF Recruit
<1>2. feedDb' \in FeedConnection /\ Content(feedDb') = rows
  BY <1>1, ReadKeeps DEF CurrentInv
<1>3. disk' = disk /\ disk \in ImageMap /\ Agree(dp, rows, disk, {}) /\ Knows(dp, rows)
  BY DEF Recruit, CurrentInv
<1>4. PICK fed, S : dp' = NotifyToFree(dp, fed, S)
  BY DEF Recruit
<1> HIDE DEF rows
<1>5. /\ Agree(dp', rows, disk, {}) /\ dp'.consistent = dp.consistent
      /\ \A v \in UUID : dp'.storage[v] = NoRow <=> dp.storage[v] = NoRow
  BY <1>3, <1>4, NotifyAgrees
<1>6. Knows(dp', rows)
  BY <1>3, <1>5 DEF Knows
<1>7. QED
  BY <1>2, <1>3, <1>5, <1>6 DEF CurrentInv

(* The connection may flush; pool and files stay.                          *)
LEMMA FlushedCurrentInv ==
  ASSUME CurrentInv, feedDb' \in FeedConnection, Content(feedDb') = Content(feedDb), UNCHANGED <<dp, disk>>
  PROVE  CurrentInv'
BY DEF CurrentInv

LEMMA RecruitFailsCurrentInv ==
  ASSUME Reliable, CurrentInv, RecruitFails
  PROVE  CurrentInv'
<1>1. PICK asked : \E got \in GetDataFromDb(feedDb, asked) : feedDb' = got.db
  BY DEF RecruitFails
<1>2. feedDb' \in FeedConnection /\ Content(feedDb') = Content(feedDb)
  BY <1>1, ReadKeeps DEF CurrentInv
<1>3. QED
  BY <1>2, FlushedCurrentInv DEF RecruitFails

LEMMA CronCurrentInv ==
  ASSUME Reliable, CurrentInv, Cron
  PROVE  CurrentInv'
<1>1. feedDb' \in FeedConnection /\ Content(feedDb') = Content(feedDb)
  BY CronKeeps DEF Cron, CurrentInv
<1>2. QED
  BY <1>1, FlushedCurrentInv DEF Cron

LEMMA RestartCurrentInv ==
  ASSUME CurrentInv, Restart
  PROVE  CurrentInv'
<1> DEFINE table == feedDb.table
<1>1. /\ table \in FeedMap /\ feedDb' = Connected(table) /\ dp' \in Started(table)
      /\ disk' = disk /\ disk \in ImageMap
  BY DEF Restart, CurrentInv, FeedConnection
<1> HIDE DEF table
<1>2. QED
  BY <1>1, StartedAgrees DEF CurrentInv

LEMMA NextCurrentInv == Reliable /\ CurrentInv /\ [Next]_vars => CurrentInv'
<1> SUFFICES ASSUME Reliable, CurrentInv, [Next]_vars PROVE CurrentInv'
  OBVIOUS
<1>1. CASE \E u \in UUID, feed \in Feeds, image \in Images \cup {NoData} :
             Post(u, feed, image) \/ \E imageUpdate \in BOOLEAN : Put(u, feed, imageUpdate, image)
  BY <1>1, PostCurrentInv, PutCurrentInv
<1>2. CASE \E u \in UUID : Delete(u)
  BY <1>2, DeleteCurrentInv
<1>3. CASE Recruit
  BY <1>3, RecruitCurrentInv
<1>4. CASE RecruitFails
  BY <1>4, RecruitFailsCurrentInv
<1>5. CASE Cron
  BY <1>5, CronCurrentInv
<1>6. CASE JournalCron
  BY <1>6 DEF JournalCron, CurrentInv
<1>7. CASE Restart
  BY <1>7, RestartCurrentInv
<1>8. CASE UNCHANGED vars
  BY <1>8 DEF vars, CurrentInv
<1>9. QED
  BY <1>1, <1>2, <1>3, <1>4, <1>5, <1>6, <1>7, <1>8 DEF Next

(* Whatever comes, however small the pool and whenever the server dies:    *)
(* what is cached is what is stored.                                       *)
THEOREM CacheIsCurrentCorrect == Reliable => (Spec => []CacheIsCurrent)
<1> SUFFICES ASSUME Reliable PROVE Spec => []CacheIsCurrent
  OBVIOUS
<1>1. CurrentInv /\ [Next]_vars => CurrentInv'
  BY NextCurrentInv
<1>2. CurrentInv => CacheIsCurrent
  BY CurrentInvImplies
<1>3. QED
  BY <1>1, <1>2, InitCurrentInv, PTL DEF Spec

(* A pool that counts as consistent may answer for the database: it knows  *)
(* every live uuid.                                                        *)
THEOREM ConsistentKnowsAllCorrect == Reliable => (Spec => []ConsistentKnowsAll)
<1> SUFFICES ASSUME Reliable PROVE Spec => []ConsistentKnowsAll
  OBVIOUS
<1>1. CurrentInv /\ [Next]_vars => CurrentInv'
  BY NextCurrentInv
<1>2. CurrentInv => ConsistentKnowsAll
  BY CurrentInvImplies
<1>3. QED
  BY <1>1, <1>2, InitCurrentInv, PTL DEF Spec

-----------------------------------------------------------------------------
(* While the server runs, what the journal asks for is there               *)

JournalMap    == [UUID -> ReqRecord \cup {NoRow}]
CommandRecord == [needFeed : BOOLEAN, needImage : BOOLEAN, needDelete : BOOLEAN, needDeleteImage : BOOLEAN]

(* The row of u, with one more update.                                     *)
Added(j, u, c) == [j EXCEPT ![u] = Summed(IF j[u] = NoRow THEN Blank ELSE j[u], c)]

(* A row asks for the feed of a live uuid and for an image that is on      *)
(* disk; a uuid that is not live has no file.                              *)
Wanted(j, rows, images) ==
  \A u \in UUID :
    /\ ~Live(rows[u]) => images[u] = NoData
    /\ j[u] # NoRow => /\ j[u].needFeed => Live(rows[u])
                       /\ j[u].needImage => images[u] # NoData

RunInv ==
  /\ CurrentInv
  /\ journal \in JournalMap
  /\ Wanted(journal, Content(feedDb), disk)
  /\ ~wedged

LEMMA JournalVocabulary ==
  /\ Jor!EmptyMap = EmptyMap /\ Jor!Blank = Blank
  /\ \A m : Jor!Keys(m) = Keys(m)
  /\ \A m, S : Jor!Only(m, S) = Only(m, S)
  /\ \A S, K : Jor!IsPrefixSet(S, K) = IsPrefixSet(S, K)
  /\ \A old, c : Jor!Summed(old, c) = Summed(old, c)
<1>1. Jor!EmptyMap = EmptyMap /\ Jor!Blank = Blank
  BY DEF EmptyMap, Jor!EmptyMap, Blank, Jor!Blank
<1>2. \A m : Jor!Keys(m) = Keys(m)
  BY DEF Keys, Jor!Keys
<1>3. \A m, S : Jor!Only(m, S) = Only(m, S)
  BY DEF Only, Jor!Only
<1>4. \A S, K : Jor!IsPrefixSet(S, K) = IsPrefixSet(S, K)
  BY DEF IsPrefixSet, Jor!IsPrefixSet
<1>5. \A old, c : Jor!Summed(old, c) = Summed(old, c)
  BY <1>1 DEF Summed, Jor!Summed
<1>6. QED
  BY <1>1, <1>2, <1>3, <1>4, <1>5

LEMMA UpdateAdds ==
  ASSUME NEW u, NEW needFeed, NEW needImage, NEW needDelete, NEW needDeleteImage,
         Update(u, needFeed, needImage, needDelete, needDeleteImage)
  PROVE  journal' = Added(journal, u, [needFeed   |-> needFeed,   needImage       |-> needImage,
                                       needDelete |-> needDelete, needDeleteImage |-> needDeleteImage])
BY JournalVocabulary DEF Update, Jor!Absorb, Added

(* An update keeps the journal to what is there, if it asks for no more.   *)
LEMMA AddedWanted ==
  ASSUME NEW j \in JournalMap, NEW rows, NEW images, Wanted(j, rows, images), NEW u \in UUID,
         NEW c \in CommandRecord, NEW next, SameBut(next, rows, u), NEW after, SameBut(after, images, u),
         c.needDelete => after[u] = NoData,
         ~c.needDelete => Live(next[u]),
         c.needImage => after[u] # NoData,
         ~c.needDelete /\ ~c.needDeleteImage => images[u] = NoData \/ after[u] # NoData
  PROVE  Added(j, u, c) \in JournalMap /\ Wanted(Added(j, u, c), next, after)
<1> DEFINE old == IF j[u] = NoRow THEN Blank ELSE j[u]
           new == Summed(old, c)
           k   == Added(j, u, c)
<1>1. Blank \in ReqRecord /\ ~Blank.needFeed /\ ~Blank.needImage
  BY DEF Blank, ReqRecord
<1>2. old \in ReqRecord /\ (old.needImage => images[u] # NoData)
  BY <1>1 DEF JournalMap, Wanted
<1> HIDE DEF old
<1>3. /\ new \in ReqRecord /\ new # NoRow
      /\ new.needFeed  => ~c.needDelete
      /\ new.needImage => ~c.needDelete /\ ~c.needDeleteImage /\ (old.needImage \/ c.needImage)
  <2>1. CASE c.needDelete
    <3>1. new = [Blank EXCEPT !.shouldDeleted = TRUE]
      BY <2>1 DEF Summed
    <3>2. new \in ReqRecord /\ new.needFeed = FALSE /\ new.needImage = FALSE
      BY <3>1 DEF Blank, ReqRecord
    <3>3. QED
      BY <3>2, ReqAssumption
  <2>2. CASE ~c.needDelete
    <3>1. new = [needFeed          |-> old.needFeed \/ c.needFeed,
                 needImage         |-> ~c.needDeleteImage /\ (old.needImage \/ c.needImage),
                 shouldDeleted     |-> FALSE,
                 shouldDeleteImage |-> c.needDeleteImage]
      BY <2>2 DEF Summed
    <3>2. c.needDeleteImage \in BOOLEAN
      BY DEF CommandRecord
    <3>3. new \in ReqRecord
      BY <3>1, <3>2 DEF ReqRecord
    <3>4. new.needImage = (~c.needDeleteImage /\ (old.needImage \/ c.needImage))
      BY <3>1
    <3>5. QED
      BY <2>2, <3>3, <3>4, ReqAssumption
  <2>3. QED
    BY <2>1, <2>2
<1> HIDE DEF new
<1>4. k = [j EXCEPT ![u] = new]
  BY DEF Added, new, old
<1>5. k \in JournalMap /\ k[u] = new /\ \A v \in UUID \ {u} : k[v] = j[v]
  BY <1>3, <1>4 DEF JournalMap
<1> HIDE DEF k
<1>6. /\ ~Live(next[u]) => after[u] = NoData
      /\ new.needFeed => Live(next[u])
      /\ new.needImage => after[u] # NoData
  BY <1>2, <1>3
<1>7. ASSUME NEW v \in UUID
      PROVE  /\ ~Live(next[v]) => after[v] = NoData
             /\ k[v] # NoRow => /\ k[v].needFeed => Live(next[v])
                                /\ k[v].needImage => after[v] # NoData
  <2>1. CASE v = u
    BY <1>5, <1>6, <2>1
  <2>2. CASE v # u
    BY <1>5, <2>2 DEF Wanted, SameBut
  <2>3. QED
    BY <2>1, <2>2
<1>8. QED
  BY <1>5, <1>7 DEF Wanted, k

LEMMA CommandType ==
  ASSUME NEW needFeed \in BOOLEAN, NEW needImage \in BOOLEAN, NEW needDelete \in BOOLEAN,
         NEW needDeleteImage \in BOOLEAN
  PROVE  [needFeed   |-> needFeed,   needImage       |-> needImage,
          needDelete |-> needDelete, needDeleteImage |-> needDeleteImage] \in CommandRecord
BY DEF CommandRecord

LEMMA LiveRow ==
  ASSUME NEW feed \in Feeds
  PROVE  LET r == [feed |-> feed, isDelete |-> FALSE] IN r \in FeedRow /\ Live(r)
<1> DEFINE r == [feed |-> feed, isDelete |-> FALSE]
<1>1. r \in FeedRow /\ r.isDelete = FALSE
  BY DEF FeedRow
<1> HIDE DEF r
<1>2. Live(r)
  BY <1>1, RowAssumption DEF Live
<1>3. QED
  BY <1>1, <1>2 DEF r

LEMMA HandedOverWanted ==
  ASSUME NEW j \in JournalMap, NEW rows, NEW images, Wanted(j, rows, images), NEW S
  PROVE  Only(j, S) \in JournalMap /\ Wanted(Only(j, S), rows, images)
BY DEF JournalMap, Wanted, Only

LEMMA InitRunInv == Init => RunInv
<1> SUFFICES ASSUME Init PROVE RunInv
  OBVIOUS
<1>1. PICK table \in [UUID -> [feed : Feeds, isDelete : {FALSE}] \cup {NoRow}] :
        /\ feedDb = Connected(table) /\ dp \in Started(table)
        /\ \A u \in UUID : disk[u] # NoData => table[u] # NoRow
  BY DEF Init
<1>2. table \in FeedMap /\ \A u \in UUID : table[u] # NoRow => Live(table[u])
  BY DEF FeedMap, FeedRow, Live
<1>3. Content(feedDb) = table
  BY <1>1, <1>2, StartedAgrees
<1>4. journal = EmptyMap /\ ~wedged
  BY DEF Init
<1>5. journal \in JournalMap /\ Wanted(journal, table, disk)
  BY <1>1, <1>2, <1>4 DEF JournalMap, Wanted, EmptyMap
<1>6. QED
  BY <1>3, <1>4, <1>5, InitCurrentInv DEF RunInv

(* A refused request, and what only flushes.                               *)
LEMMA QuietRunInv ==
  ASSUME RunInv, CurrentInv', Content(feedDb') = Content(feedDb), UNCHANGED <<disk, journal, wedged>>
  PROVE  RunInv'
BY DEF RunInv

(* An accepted request: rows, files and journal of one uuid change.        *)
LEMMA AcceptedRunInv ==
  ASSUME RunInv, CurrentInv', UNCHANGED wedged, NEW u \in UUID, NEW c \in CommandRecord,
         journal' = Added(journal, u, c),
         NEW r \in FeedRow, Content(feedDb') = [Content(feedDb) EXCEPT ![u] = r],
         NEW x \in Images \cup {NoData}, disk' = [disk EXCEPT ![u] = x],
         c.needDelete => x = NoData,
         ~c.needDelete => Live(r),
         c.needImage => x # NoData,
         ~c.needDelete /\ ~c.needDeleteImage => disk[u] = NoData \/ x # NoData
  PROVE  RunInv'
<1> DEFINE rows == Content(feedDb)
           next == Content(feedDb')
<1>1. rows \in FeedMap /\ disk \in ImageMap
  BY ContentType DEF RunInv, CurrentInv
<1>2. SameBut(next, rows, u) /\ next[u] = r /\ SameBut(disk', disk, u) /\ disk'[u] = x
  BY <1>1 DEF FeedMap, ImageMap, SameBut
<1>3. journal \in JournalMap /\ Wanted(journal, rows, disk)
  BY DEF RunInv
<1> HIDE DEF rows, next
<1>4. Added(journal, u, c) \in JournalMap /\ Wanted(Added(journal, u, c), next, disk')
  BY <1>2, <1>3, AddedWanted
<1>5. QED
  BY <1>4 DEF RunInv, next

(* What a request does to rows, files, journal and answer.                 *)
Effect(u, c, r, x, code) ==
  /\ Content(feedDb') = [Content(feedDb) EXCEPT ![u] = r]
  /\ disk' = [disk EXCEPT ![u] = x]
  /\ journal' = Added(journal, u, c)
  /\ answer' = Code(code) /\ UNCHANGED wedged

PostCommand(image) ==
  [needFeed |-> TRUE, needImage |-> image # NoData, needDelete |-> FALSE, needDeleteImage |-> FALSE]

PutCommand(needFeed, imageUpdate, image) ==
  [needFeed   |-> needFeed, needImage       |-> imageUpdate /\ image # NoData,
   needDelete |-> FALSE,    needDeleteImage |-> imageUpdate /\ image = NoData]

DeleteCommand ==
  [needFeed |-> FALSE, needImage |-> FALSE, needDelete |-> TRUE, needDeleteImage |-> FALSE]

PutImage(u, imageUpdate, image) == IF imageUpdate THEN image ELSE disk[u]

LEMMA PostEffect ==
  ASSUME Reliable, CurrentInv, NEW u \in UUID, NEW feed \in Feeds, NEW image \in Images \cup {NoData},
         Post(u, feed, image)
  PROVE  \/ FALSE \in MayPost(u) /\ Refuse(409)
         \/ /\ TRUE \in MayPost(u)
            /\ Effect(u, PostCommand(image), [feed |-> feed, isDelete |-> FALSE],
                      PutImage(u, image # NoData, image), 201)
<1> SUFFICES ASSUME /\ \E d \in AddFeed(dp, u, feed, IsThereFile(u)) :
                         IF image = NoData THEN dp' = d /\ UNCHANGED disk ELSE WriteImage(d, u, image)
                    /\ PushFeed(u, feed, FALSE)
                    /\ Update(u, TRUE, image # NoData, FALSE, FALSE)
                    /\ answer' = Code(201)
                    /\ UNCHANGED wedged
             PROVE  Effect(u, PostCommand(image), [feed |-> feed, isDelete |-> FALSE],
                           PutImage(u, image # NoData, image), 201)
  BY DEF Post
<1>1. Content(feedDb') = [Content(feedDb) EXCEPT ![u] = [feed |-> feed, isDelete |-> FALSE]]
  BY PushFeedStores
<1>2. journal' = Added(journal, u, PostCommand(image))
  BY UpdateAdds DEF PostCommand
<1>3. disk' = [disk EXCEPT ![u] = PutImage(u, image # NoData, image)]
  BY DEF CurrentInv, WriteImage, SetDataToDisk, ImageMap, PutImage
<1>4. QED
  BY <1>1, <1>2, <1>3 DEF Effect

LEMMA PutEffect ==
  ASSUME Reliable, CurrentInv, NEW u \in UUID, NEW feed \in Feeds, NEW imageUpdate \in BOOLEAN,
         NEW image \in Images \cup {NoData}, Put(u, feed, imageUpdate, image)
  PROVE  \/ FALSE \in MayChange(u) /\ Refuse(404)
         \/ /\ TRUE \in MayChange(u)
            /\ \E needFeed \in BOOLEAN :
                 /\ ~needFeed => Content(feedDb)[u] = [feed |-> feed, isDelete |-> FALSE]
                 /\ Effect(u, PutCommand(needFeed, imageUpdate, image), [feed |-> feed, isDelete |-> FALSE],
                           PutImage(u, imageUpdate, image), 204)
<1> DEFINE isSameFeed == IsIdExistAndNotDeleted(dp, u) /\ GetFeedData(dp, u) = feed
           needFeed   == ~isSameFeed
<1> SUFFICES ASSUME /\ IF isSameFeed THEN UNCHANGED feedDb ELSE PushFeed(u, feed, FALSE)
                    /\ Update(u, needFeed, imageUpdate /\ image # NoData,
                              FALSE, imageUpdate /\ image = NoData)
                    /\ \E d \in AddFeed(dp, u, feed, IsThereFile(u)) :
                         IF ~imageUpdate
                         THEN dp' = d /\ UNCHANGED disk
                         ELSE IF image = NoData THEN DropImage(d, u) ELSE WriteImage(d, u, image)
                    /\ answer' = Code(204)
                    /\ UNCHANGED wedged
             PROVE  /\ needFeed \in BOOLEAN
                    /\ ~needFeed => Content(feedDb)[u] = [feed |-> feed, isDelete |-> FALSE]
                    /\ Effect(u, PutCommand(needFeed, imageUpdate, image), [feed |-> feed, isDelete |-> FALSE],
                              PutImage(u, imageUpdate, image), 204)
  BY DEF Put
<1>1. Content(feedDb') = [Content(feedDb) EXCEPT ![u] = [feed |-> feed, isDelete |-> FALSE]]
  BY PutStores
<1>2. ~needFeed => Content(feedDb)[u] = [feed |-> feed, isDelete |-> FALSE]
  BY SameFeedIsStored
<1>3. needFeed \in BOOLEAN
  OBVIOUS
<1> HIDE DEF needFeed
<1>4. journal' = Added(journal, u, PutCommand(needFeed, imageUpdate, image))
  BY UpdateAdds DEF PutCommand
<1>5. disk' = [disk EXCEPT ![u] = PutImage(u, imageUpdate, image)]
  BY DEF CurrentInv, WriteImage, DropImage, SetDataToDisk, DeleteDataFromDiskIfExist, ImageMap, PutImage
<1>6. QED
  BY <1>1, <1>2, <1>3, <1>4, <1>5 DEF Effect

LEMMA DeleteEffect ==
  ASSUME Reliable, CurrentInv, NEW u \in UUID, Delete(u)
  PROVE  \/ FALSE \in MayChange(u) /\ Refuse(404)
         \/ /\ TRUE \in MayChange(u)
            /\ Effect(u, DeleteCommand, [feed |-> NoData, isDelete |-> TRUE], NoData, 204)
<1> SUFFICES ASSUME PushFeed(u, NoData, TRUE), DeleteDataFromDiskIfExist(u),
                    Update(u, FALSE, FALSE, TRUE, FALSE), answer' = Code(204), UNCHANGED wedged
             PROVE  Effect(u, DeleteCommand, [feed |-> NoData, isDelete |-> TRUE], NoData, 204)
  BY DEF Delete
<1>1. Content(feedDb') = [Content(feedDb) EXCEPT ![u] = [feed |-> NoData, isDelete |-> TRUE]]
  BY PushFeedStores
<1>2. journal' = Added(journal, u, DeleteCommand)
  BY UpdateAdds DEF DeleteCommand
<1>3. QED
  BY <1>1, <1>2 DEF Effect, DeleteDataFromDiskIfExist

LEMMA CommandTypes ==
  /\ \A image : PostCommand(image) \in CommandRecord
  /\ \A needFeed, imageUpdate \in BOOLEAN : \A image :
       PutCommand(needFeed, imageUpdate, image) \in CommandRecord
  /\ DeleteCommand \in CommandRecord
<1>1. ASSUME NEW image PROVE PostCommand(image) \in CommandRecord
  <2> DEFINE new == image # NoData
  <2>1. new \in BOOLEAN
    OBVIOUS
  <2> HIDE DEF new
  <2>2. [needFeed |-> TRUE, needImage |-> new, needDelete |-> FALSE, needDeleteImage |-> FALSE] \in CommandRecord
    BY <2>1, CommandType
  <2>3. QED
    BY <2>2 DEF PostCommand, new
<1>2. ASSUME NEW needFeed \in BOOLEAN, NEW imageUpdate \in BOOLEAN, NEW image
      PROVE  PutCommand(needFeed, imageUpdate, image) \in CommandRecord
  <2> DEFINE new  == imageUpdate /\ image # NoData
             drop == imageUpdate /\ image = NoData
  <2>1. new \in BOOLEAN /\ drop \in BOOLEAN
    OBVIOUS
  <2> HIDE DEF new, drop
  <2>2. [needFeed |-> needFeed, needImage |-> new, needDelete |-> FALSE, needDeleteImage |-> drop] \in CommandRecord
    BY <2>1, CommandType
  <2>3. QED
    BY <2>2 DEF PutCommand, new, drop
<1>3. DeleteCommand \in CommandRecord
  BY CommandType DEF DeleteCommand
<1>4. QED
  BY <1>1, <1>2, <1>3

LEMMA PostRunInv ==
  ASSUME Reliable, RunInv, NEW u \in UUID, NEW feed \in Feeds, NEW image \in Images \cup {NoData},
         Post(u, feed, image)
  PROVE  RunInv'
<1> DEFINE c == PostCommand(image)
           r == [feed |-> feed, isDelete |-> FALSE]
           x == PutImage(u, image # NoData, image)
<1>1. CurrentInv /\ CurrentInv'
  BY PostCurrentInv DEF RunInv
<1>2. CASE Refuse(409)
  BY <1>1, <1>2, QuietRunInv DEF Refuse
<1>3. CASE Effect(u, c, r, x, 201)
  <2>1. c \in CommandRecord /\ r \in FeedRow /\ Live(r)
    BY CommandTypes, LiveRow
  <2>2. x \in Images \cup {NoData} /\ ~c.needDelete /\ (c.needImage => x # NoData)
        /\ (disk[u] = NoData \/ x # NoData)
    BY <1>1 DEF PostCommand, PutImage, CurrentInv, ImageMap
  <2> HIDE DEF c, r, x
  <2>3. QED
    BY <1>1, <1>3, <2>1, <2>2, AcceptedRunInv DEF Effect
<1>4. QED
  BY <1>1, <1>2, <1>3, PostEffect

LEMMA PutRunInv ==
  ASSUME Reliable, RunInv, NEW u \in UUID, NEW feed \in Feeds, NEW imageUpdate \in BOOLEAN,
         NEW image \in Images \cup {NoData}, Put(u, feed, imageUpdate, image)
  PROVE  RunInv'
<1> DEFINE r == [feed |-> feed, isDelete |-> FALSE]
           x == PutImage(u, imageUpdate, image)
<1>1. CurrentInv /\ CurrentInv'
  BY PutCurrentInv DEF RunInv
<1>2. CASE Refuse(404)
  BY <1>1, <1>2, QuietRunInv DEF Refuse
<1>3. ASSUME NEW needFeed \in BOOLEAN, Effect(u, PutCommand(needFeed, imageUpdate, image), r, x, 204)
      PROVE  RunInv'
  <2> DEFINE c == PutCommand(needFeed, imageUpdate, image)
  <2>1. c \in CommandRecord /\ r \in FeedRow /\ Live(r)
    BY CommandTypes, LiveRow
  <2>2. x \in Images \cup {NoData} /\ ~c.needDelete /\ (c.needImage => x # NoData)
        /\ (~c.needDeleteImage => disk[u] = NoData \/ x # NoData)
    BY <1>1 DEF PutCommand, PutImage, CurrentInv, ImageMap
  <2> HIDE DEF c, r, x
  <2>3. Effect(u, c, r, x, 204)
    BY <1>3 DEF c
  <2>4. QED
    BY <1>1, <2>1, <2>2, <2>3, AcceptedRunInv DEF Effect
<1>4. QED
  BY <1>1, <1>2, <1>3, PutEffect

LEMMA DeleteRunInv ==
  ASSUME Reliable, RunInv, NEW u \in UUID, Delete(u)
  PROVE  RunInv'
<1> DEFINE c == DeleteCommand
           r == [feed |-> NoData, isDelete |-> TRUE]
<1>1. CurrentInv /\ CurrentInv'
  BY DeleteCurrentInv DEF RunInv
<1>2. CASE Refuse(404)
  BY <1>1, <1>2, QuietRunInv DEF Refuse
<1>3. CASE Effect(u, c, r, NoData, 204)
  <2>1. c \in CommandRecord /\ r \in FeedRow /\ c.needDelete /\ ~c.needImage
    BY CommandTypes DEF DeleteCommand, FeedRow
  <2> HIDE DEF c, r
  <2>2. QED
    BY <1>1, <1>3, <2>1, AcceptedRunInv DEF Effect
<1>4. QED
  BY <1>1, <1>2, <1>3, DeleteEffect

-----------------------------------------------------------------------------
(* A read of rows that are all there gives each uuid its own               *)

Rank(S, u) == Cardinality({v \in S : v <= u})

LEMMA RankGrows ==
  ASSUME NEW S \in SUBSET UUID, NEW u \in S, NEW v \in S, u < v
  PROVE  Rank(S, u) # Rank(S, v)
<1> DEFINE U == {w \in S : w <= u}
           V == {w \in S : w <= v}
<1>1. S \in SUBSET Nat /\ IsFiniteSet(S)
  BY UUIDAssumption, FS_Subset
<1>2. IsFiniteSet(V)
  BY <1>1, FS_Subset
<1>3. U \in SUBSET V /\ v \in V /\ v \notin U
  <2>1. u \in Nat /\ v \in Nat /\ \A w \in S : w \in Nat
    BY <1>1
  <2>2. v <= v /\ ~(v <= u) /\ \A w \in S : w <= u => w <= v
    BY <2>1
  <2>3. QED
    BY <2>2
<1> HIDE DEF U, V
<1>4. Cardinality(V) # Cardinality(U)
  BY <1>2, <1>3, FS_Subset
<1>5. QED
  BY <1>4 DEF Rank, U, V

LEMMA RankTells ==
  ASSUME NEW S \in SUBSET UUID, NEW u \in S, NEW v \in S, Rank(S, u) = Rank(S, v)
  PROVE  u = v
<1>1. u \in Nat /\ v \in Nat
  BY UUIDAssumption
<1>2. CASE u < v
  BY <1>2, RankGrows
<1>3. CASE v < u
  BY <1>3, RankGrows
<1>4. QED
  BY <1>1, <1>2, <1>3

LEMMA TakenIsOwn ==
  ASSUME NEW t \in FeedMap, NEW asked \in SUBSET Keys(t), NEW u \in asked
  PROVE  Taken(t, asked, asked)[u] = t[u]
<1>1. asked \in SUBSET UUID /\ asked \cap Keys(t) = asked /\ u \in UUID
  BY DEF Keys
<1>2. Rank(asked, u) <= Cardinality(asked)
  <2>1. IsFiniteSet(asked)
    BY <1>1, UUIDAssumption, FS_Subset
  <2>2. QED
    BY <2>1, FS_Subset DEF Rank
<1>3. (CHOOSE v \in asked : Rank(asked, v) = Rank(asked, u)) = u
  BY <1>1, RankTells
<1>4. Taken(t, asked, asked)[u] =
        IF u \in asked /\ Rank(asked, u) <= Cardinality(asked \cap Keys(t))
        THEN t[CHOOSE v \in asked \cap Keys(t) : Rank(asked \cap Keys(t), v) = Rank(asked, u)]
        ELSE NoRow
  BY <1>1 DEF Taken, Rank
<1>5. QED
  BY <1>1, <1>2, <1>3, <1>4

(* The uuids a batch needs the database for are all in the table.          *)
LEMMA AskedAreThere ==
  ASSUME NEW j, NEW rows, NEW images, Wanted(j, rows, images), NEW S
  PROVE  FromDb(Only(j, S)) \in SUBSET Keys(rows)
<1> DEFINE b == Only(j, S)
<1>1. ASSUME NEW u \in FromDb(b) PROVE u \in Keys(rows)
  <2>1. u \in UUID /\ b[u] # NoRow /\ b[u].needFeed
    BY DEF FromDb, Keys
  <2>2. b[u] = j[u]
    BY <2>1 DEF Only
  <2>3. Live(rows[u])
    BY <2>1, <2>2 DEF Wanted
  <2>4. QED
    BY <2>1, <2>3 DEF Live, Keys
<1>2. QED
  BY <1>1

(* No getter of the pool throws for a row of the journal.                  *)
LEMMA NothingThrows ==
  ASSUME RunInv, NEW S
  PROVE  ~Throws(Only(journal, S))
<1> DEFINE b == Only(journal, S)
<1>1. ASSUME NEW u \in Keys(b), IsIdExistAndNotDeleted(dp, u)
      PROVE  /\ ~FeedThrows(dp, u)
             /\ b[u].needImage => ~ImageThrows(dp, u)
  <2>1. u \in UUID /\ b[u] # NoRow /\ b[u] = journal[u]
    BY DEF Keys, Only
  <2>2. /\ FeedAgrees(dp.storage[u], Content(feedDb)[u]) /\ ImageAgrees(dp.storage[u], disk[u])
        /\ ~dp.storage[u].isDelete
    BY <1>1, <2>1 DEF RunInv, CurrentInv, Agree, IsIdExistAndNotDeleted, IsIdExist
  <2>3. b[u].needImage => disk[u] # NoData
    BY <2>1 DEF RunInv, Wanted
  <2>4. QED
    BY <2>2, <2>3 DEF FeedAgrees, ImageAgrees, FeedThrows, ImageThrows
<1>2. QED
  BY <1>1 DEF Throws

LEMMA RecruitSucceeds ==
  ASSUME Reliable, RunInv
  PROVE  ~RecruitFails
<1> SUFFICES ASSUME RecruitFails PROVE FALSE
  OBVIOUS
<1>1. PICK S : LET b == Only(journal, S)
               IN  \E got \in GetDataFromDb(feedDb, FromDb(b)) : Throws(b) \/ PastTheEnd(b, got.result)
  BY DEF RecruitFails
<1> DEFINE b     == Only(journal, S)
           asked == FromDb(b)
           rows  == Content(feedDb)
<1>2. PICK got \in GetDataFromDb(feedDb, asked) : PastTheEnd(b, got.result)
  BY <1>1, NothingThrows
<1>3. feedDb \in FeedConnection /\ rows \in FeedMap
  BY ContentType DEF RunInv, CurrentInv
<1>4. asked \in SUBSET Keys(rows)
  BY AskedAreThere DEF RunInv
<1>5. got.result = Taken(rows, asked, asked)
  BY <1>3, ReadKeeps
<1>6. PICK u \in asked : got.result[u] = NoRow
  BY <1>2 DEF PastTheEnd
<1> HIDE DEF asked, rows
<1>7. rows[u] = NoRow
  BY <1>3, <1>4, <1>5, <1>6, TakenIsOwn
<1>8. QED
  BY <1>4, <1>7 DEF Keys

LEMMA RecruitRunInv ==
  ASSUME Reliable, RunInv, Recruit
  PROVE  RunInv'
<1>1. CurrentInv'
  BY RecruitCurrentInv DEF RunInv
<1>2. Content(feedDb') = Content(feedDb)
  BY ReadKeeps DEF Recruit, RunInv, CurrentInv
<1>3. PICK S : journal' = Only(journal, UUID \ S)
  BY JournalVocabulary DEF Recruit, Jor!HandOver
<1>4. journal' \in JournalMap /\ Wanted(journal', Content(feedDb), disk)
  BY <1>3, HandedOverWanted DEF RunInv
<1>5. QED
  BY <1>1, <1>2, <1>4 DEF RunInv, Recruit

LEMMA CronRunInv ==
  ASSUME Reliable, RunInv, Cron
  PROVE  RunInv'
<1>1. CurrentInv'
  BY CronCurrentInv DEF RunInv
<1>2. Content(feedDb') = Content(feedDb)
  BY CronKeeps DEF Cron, RunInv, CurrentInv
<1>3. QED
  BY <1>1, <1>2, QuietRunInv DEF Cron, journals

LEMMA JournalCronRunInv ==
  ASSUME RunInv, JournalCron
  PROVE  RunInv'
BY DEF JournalCron, Jor!Persist, RunInv, CurrentInv

LEMMA NextRunInv == Reliable /\ ~MayRestart /\ RunInv /\ [Next]_vars => RunInv'
<1> SUFFICES ASSUME Reliable, ~MayRestart, RunInv, [Next]_vars PROVE RunInv'
  OBVIOUS
<1>1. CASE \E u \in UUID, feed \in Feeds, image \in Images \cup {NoData} :
             Post(u, feed, image) \/ \E imageUpdate \in BOOLEAN : Put(u, feed, imageUpdate, image)
  BY <1>1, PostRunInv, PutRunInv
<1>2. CASE \E u \in UUID : Delete(u)
  BY <1>2, DeleteRunInv
<1>3. CASE Recruit
  BY <1>3, RecruitRunInv
<1>4. CASE RecruitFails
  BY <1>4, RecruitSucceeds
<1>5. CASE Cron
  BY <1>5, CronRunInv
<1>6. CASE JournalCron
  BY <1>6, JournalCronRunInv
<1>7. CASE Restart
  BY <1>7 DEF Restart
<1>8. CASE UNCHANGED vars
  BY <1>8 DEF vars, journals, RunInv, CurrentInv
<1>9. QED
  BY <1>1, <1>2, <1>3, <1>4, <1>5, <1>6, <1>7, <1>8 DEF Next

LEMMA RunInvImplies == RunInv => NeedFeedIsLive /\ NeverWedged
BY DEF RunInv, Wanted, NeedFeedIsLive, NeverWedged, Keys

(* While the server runs, a row that asks for a feed is one of a live      *)
(* uuid: "need feed means we will not encouter with deleted id".           *)
THEOREM NeedFeedIsLiveCorrect == Reliable /\ ~MayRestart => (Spec => []NeedFeedIsLive)
<1> SUFFICES ASSUME Reliable, ~MayRestart PROVE Spec => []NeedFeedIsLive
  OBVIOUS
<1>1. RunInv /\ [Next]_vars => RunInv'
  BY NextRunInv
<1>2. RunInv => NeedFeedIsLive
  BY RunInvImplies
<1>3. QED
  BY <1>1, <1>2, InitRunInv, PTL DEF Spec

(* No exception leaves the mutexes locked: no getter of the pool throws    *)
(* and recruit finds every row it asks the database for, however many      *)
(* SELECTs that takes.                                                     *)
THEOREM NeverWedgedCorrect == Reliable /\ ~MayRestart => (Spec => []NeverWedged)
<1> SUFFICES ASSUME Reliable, ~MayRestart PROVE Spec => []NeverWedged
  OBVIOUS
<1>1. RunInv /\ [Next]_vars => RunInv'
  BY NextRunInv
<1>2. RunInv => NeverWedged
  BY RunInvImplies
<1>3. QED
  BY <1>1, <1>2, InitRunInv, PTL DEF Spec
=============================================================================
