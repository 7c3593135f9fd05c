-------------------------------- MODULE Sync --------------------------------
(***************************************************************************)
(* A synchronising client beside the server: sessions of client.py that    *)
(* poll until an empty answer, the double buffer they are served from, and *)
(* senders who go on changing feeds meanwhile.                             *)
(*                                                                         *)
(* The server is FeedStore, which its parts implement, and the buffers of  *)
(* Dispatch with one polling client: a GET and a run-ahead are atomic, for *)
(* they exclude each other, but runAhead copies nextToStream before it has *)
(* the locks, and a GET may come between.                                  *)
(***************************************************************************)
EXTENDS Replica, JournalRows

CONSTANTS
  Feeds, Images,
  NotReady,                \* of a buffer that is EMPTY
  MAX_MESSAGE_TO_UPDATE,   \* rows in one batch
  FirstUuids, FirstFeeds,  \* bounds: what the store may hold at the start
  MaxEvents                \* bound: requests of senders and sessions that die

(* A live feed with its image, and a message with both or a part of them.  *)
StoreRow    == [feed : Feeds, image : Images \cup {NoData}]
MessageData == [isDelete : BOOLEAN, isImageDelete : BOOLEAN,
                feed : Feeds \cup {NoData}, image : Images \cup {NoData}]
Batch       == [UUID -> MessageData \cup {NoRow}]

ASSUME FirstAssumption == FirstUuids \subseteq UUID /\ FirstFeeds \subseteq Feeds
ASSUME NoneAssumption ==
  /\ NoData \notin Feeds \cup Images /\ NoRow \notin StoreRow \cup MessageData
  /\ NotReady \notin Batch

Label == {"A", "B"}
Other(b) == IF b = "B" THEN "A" ELSE "B"

VARIABLES
  store, journal,          \* see FeedStore
  buf,                     \* per buffer its batch, NotReady if EMPTY
  nextToStream, reqRunAhead,
  ahead,                   \* the bucket runAhead has copied, "none" if it is asleep
  file,                    \* jor.csv, empty while a session runs
  session,                 \* the session, its images also while none runs
  active,                  \* does one run?
  lost,                    \* history: uuids whose row, or the order of whose updates, a session has lost
  inOrder,                 \* history: every session so far was sent uuids in order
  last,                    \* history: the greatest uuid this session was sent, -1 without one
  events                   \* counted: requests of senders, deaths of sessions

server == <<store, journal, buf, nextToStream, reqRunAhead, ahead>>
client == <<file, session, active, lost, inOrder, last>>
vars == <<server, client, events>>

Service == INSTANCE FeedStore WITH answer <- buf

(* The uuids of S in the order of the server's maps and of the replica.    *)
InUuidOrder(S) ==
  CHOOSE us \in [1 .. Cardinality(S) -> S] : \A i, j \in DOMAIN us : i < j => us[i] < us[j]

-----------------------------------------------------------------------------
(* What senders do, where the server accepts it.                           *)
Post(u, feed, image) ==
  /\ store[u] = NoRow
  /\ store' = [store EXCEPT ![u] = [feed |-> feed, image |-> image]]
  /\ Service!Told(u, TRUE, image # NoData, FALSE, FALSE)

Put(u, feed, imageUpdate, image) ==
  /\ store[u] # NoRow
  /\ store' = [store EXCEPT ![u].feed = feed, ![u].image = IF imageUpdate THEN image ELSE @]
  /\ \E needFeed \in {TRUE, feed # store[u].feed} :
       Service!Told(u, needFeed, imageUpdate /\ image # NoData, FALSE, imageUpdate /\ image = NoData)

Delete(u) ==
  /\ store[u] # NoRow
  /\ store' = [store EXCEPT ![u] = NoRow]
  /\ Service!Told(u, FALSE, FALSE, TRUE, FALSE)

Send ==
  /\ events < MaxEvents
  /\ events' = events + 1
  /\ \E u \in UUID :
       \/ \E feed \in Feeds, image \in Images \cup {NoData} :
            Post(u, feed, image) \/ \E imageUpdate \in BOOLEAN : Put(u, feed, imageUpdate, image)
       \/ Delete(u)
  /\ UNCHANGED <<buf, nextToStream, reqRunAhead, ahead, client>>

-----------------------------------------------------------------------------
(* recruit: the smallest rows, at least one of them if there is any.       *)
Batches ==
  {S \in SUBSET Keys(journal) :
     /\ IsPrefixSet(S, Keys(journal))
     /\ Cardinality(S) <= MAX_MESSAGE_TO_UPDATE
     /\ S = {} => journal = EmptyMap}

Messages(S) == [u \in UUID |-> IF u \in S THEN Service!Message(u) ELSE NoRow]

Wake ==
  /\ reqRunAhead /\ ahead = "none"
  /\ ahead' = nextToStream /\ reqRunAhead' = FALSE
  /\ UNCHANGED <<store, journal, buf, nextToStream, client, events>>

(* Slip: a READY buffer is filled again.                                   *)
FillAgain ==
  /\ ahead # "none"
  /\ ahead' = "none"
  /\ \E S \in Batches : /\ buf' = [buf EXCEPT ![ahead] = Messages(S)]
                        /\ journal' = Only(journal, UUID \ S)
  /\ UNCHANGED <<store, nextToStream, reqRunAhead, client, events>>

Fill ==
  /\ ahead # "none"
  /\ ahead' = "none"
  /\ IF buf[ahead] = NotReady
     THEN \E S \in Batches : /\ buf' = [buf EXCEPT ![ahead] = Messages(S)]
                             /\ journal' = Only(journal, UUID \ S)
     ELSE UNCHANGED <<buf, journal>>
  /\ UNCHANGED <<store, nextToStream, reqRunAhead, client, events>>

(* The batch a GET may be answered with, and what dispatch then leaves.    *)
Replies ==
  IF buf[nextToStream] = NotReady THEN {Messages(S) : S \in Batches} ELSE {buf[nextToStream]}

Dispatch(batch) ==
  /\ journal' = IF buf[nextToStream] = NotReady THEN Only(journal, UUID \ Keys(batch)) ELSE journal
  /\ buf' = [buf EXCEPT ![nextToStream] = NotReady]
  /\ nextToStream' = Other(nextToStream)
  /\ reqRunAhead' = (batch # EmptyMap)

-----------------------------------------------------------------------------
(* History. The uuids that have rows in all, but none in some.             *)
MissingIn(some, all) ==
  {u \in UUID : /\ \E row \in Range(all) : row.uuid = u
                /\ \A row \in Range(some) : row.uuid # u}

(* The next buffer has an older message of a uuid this session is past: a  *)
(* later one may have been merged before it.                               *)
Late(u) == u <= last /\ buf[nextToStream] # NotReady /\ buf[nextToStream][u] # NoRow

(* The top of client.py: what the file holds is read and the file emptied. *)
Start ==
  /\ ~active
  /\ active' = TRUE
  /\ session' = [session EXCEPT !.jor = Loaded(file), !.iter = 1, !.out = <<>>]
  /\ file' = <<>>
  /\ lost' = lost \cup MissingIn(Loaded(file), file)
  /\ UNCHANGED <<server, inOrder, last, events>>

InOrder(batch) ==
  LET us == InUuidOrder(Keys(batch))
  IN  [i \in DOMAIN us |->
         [uuid |-> us[i],
          isDelete |-> batch[us[i]].isDelete, isImageDelete |-> batch[us[i]].isImageDelete,
          feed     |-> batch[us[i]].feed,     image         |-> batch[us[i]].image]]

(* getReq, one turn: a batch is merged, an empty answer ends the session.  *)
Get ==
  /\ active
  /\ \E batch \in Replies :
       /\ Dispatch(batch)
       /\ IF batch = EmptyMap
          THEN /\ active' = FALSE
               /\ file' = Finished(session)
               /\ session' = [session EXCEPT !.jor = <<>>, !.iter = 1, !.out = <<>>]
               /\ last' = -1 /\ UNCHANGED inOrder
          ELSE /\ session' = Merge(session, InOrder(batch))
               /\ last' = Max(Keys(batch))
               /\ inOrder' = (inOrder /\ last < Min(Keys(batch)))
               /\ UNCHANGED <<file, active>>
  /\ UNCHANGED <<store, ahead, lost, events>>

(* A session that is killed: what tryFlush wrote, or a part of it, is what *)
(* the next one finds.                                                     *)
Killed ==
  /\ active /\ events < MaxEvents
  /\ events' = events + 1
  /\ active' = FALSE
  /\ \E n \in 0 .. Written(session) : file' = SubSeq(session.out, 1, n)
  /\ session' = [session EXCEPT !.jor = <<>>, !.iter = 1, !.out = <<>>]
  /\ last' = -1 /\ UNCHANGED inOrder

(* Before it asks, or after a merge. (The file a death within merge leaves *)
(* is one that a death after it may leave.)                                *)
Die ==
  /\ Killed
  /\ lost' = lost \cup MissingIn(file', Finished(session)) \cup {u \in UUID : Late(u)}
  /\ UNCHANGED server

(* Before merge, or by the exception of a request whose answer is lost:    *)
(* the server has handed the batch over.                                   *)
DieUnanswered ==
  /\ Killed
  /\ \E batch \in Replies :
       /\ Dispatch(batch)
       /\ lost' = lost \cup MissingIn(file', Finished(session)) \cup Keys(batch)
  /\ UNCHANGED <<store, ahead>>

(* Between two sessions: a replica that was brought up to date.            *)
RowsOf(s) ==
  LET us == InUuidOrder(Keys(s))
  IN  [i \in DOMAIN us |-> Row(us[i], s[us[i]].feed, s[us[i]].image # NoData)]

(* A runAhead that the session before has woken may still wait for its     *)
(* locks, with the buffer that session turned away from in its last GET.   *)
Init ==
  /\ store \in [UUID -> [feed : FirstFeeds, image : Images \cup {NoData}] \cup {NoRow}]
  /\ Keys(store) = FirstUuids
  /\ journal = EmptyMap
  /\ buf = [b \in Label |-> NotReady]
  /\ nextToStream = "A" /\ reqRunAhead = FALSE /\ ahead \in {"none", "B"}
  /\ file = RowsOf(store)
  /\ session = [jor |-> <<>>, iter |-> 1, out |-> <<>>,
                images |-> [u \in UUID |-> IF store[u] = NoRow THEN NoData ELSE store[u].image]]
  /\ active = FALSE
  /\ lost = {} /\ inOrder = TRUE
  /\ last = -1
  /\ events = 0

Next == Send \/ Wake \/ Fill \/ Start \/ Get \/ Die \/ DieUnanswered

Spec == Init /\ [][Next]_vars

-----------------------------------------------------------------------------
(* What the server still has to hand over of u.                            *)
Pending(u) == journal[u] # NoRow \/ \E b \in Label : buf[b] # NotReady /\ buf[b][u] # NoRow

ReplicaRow == [uuid : UUID, feed : Feeds \cup {NoData}, image : BOOLEAN]

(* The state keeps its types; the walk over jorData ends at its end, and a *)
(* session that reads no row any more has none in its hands.               *)
TypeOK ==
  /\ store \in [UUID -> StoreRow \cup {NoRow}]
  /\ journal \in RowMap
  /\ buf \in [Label -> Batch \cup {NotReady}] /\ nextToStream \in Label /\ ahead \in Label \cup {"none"}
  /\ Range(file) \subseteq ReplicaRow
  /\ Range(session.jor) \cup Range(session.out) \subseteq ReplicaRow
  /\ session.iter \in 1 .. Len(session.jor) + 1
  /\ session.images \in [UUID -> Images \cup {NoData}]
  /\ ~active => session.jor = <<>> /\ session.out = <<>>

(* tryFlush opens the image file of every row that says it has an image:   *)
(* the file is there, whichever session wrote the row, died, or merged     *)
(* messages out of order.                                                  *)
ImageFileIsThere ==
  \A row \in Range(file) \cup Range(session.jor) \cup Range(session.out) :
    row.image => session.images[row.uuid] # NoData

(* The walk of merge is only right over sorted rows, and writes them: no   *)
(* uuid twice, and none out of order, as long as every session is sent     *)
(* uuids in order.                                                         *)
ReplicaInOrder ==
  inOrder => \A rows \in {file, session.jor, session.out} :
               \A i, j \in DOMAIN rows : i < j => rows[i].uuid < rows[j].uuid

(* Between two sessions the replica is the store, but for what the server  *)
(* still has to hand over: the updates summed in the journal, handed over  *)
(* early by runAhead and merged into the older rows add up to the feed and *)
(* the image the server has now.  (An image dropped may stay.)  A session  *)
(* that died costs no more than the rows it had not written, the batch it  *)
(* was being sent, and the uuids of a batch left behind a later one.       *)
ReplicaAgrees ==
  inOrder /\ ~active =>
    \A u \in UUID \ lost : ~Pending(u) =>
      LET rows == {row \in Range(file) : row.uuid = u}
      IN  IF store[u] = NoRow
          THEN rows = {}
          ELSE \E row \in rows :
                 /\ row.feed = store[u].feed
                 /\ store[u].image # NoData =>
                      row.image /\ session.images[u] = store[u].image

(* An image that was dropped is gone from the replica, too.                *)
DroppedImagesGo ==
  inOrder /\ ~active =>
    \A row \in Range(file) :
      row.uuid \notin lost /\ ~Pending(row.uuid) /\ row.image => store[row.uuid].image # NoData

(* Whatever the order messages come in and whichever sessions died, a feed *)
(* the server has told of and no session has lost has a row in the         *)
(* replica: merge may write rows twice or leave a deleted one, but forgets *)
(* none.                                                                   *)
EveryFeedHasARow ==
  ~active =>
    \A u \in Keys(store) \ lost : Pending(u) \/ \E row \in Range(file) : row.uuid = u
=============================================================================
