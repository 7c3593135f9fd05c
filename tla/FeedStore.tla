------------------------------ MODULE FeedStore ------------------------------
(***************************************************************************)
(* What the server promises, whatever it caches, pools or writes late: a   *)
(* store of feeds, each with an optional image, and a journal of what the  *)
(* client was not sent.  A batch carries the feeds and images of now, not  *)
(* those of the update that asked for them.                                *)
(***************************************************************************)
EXTENDS JournalRows

CONSTANTS Feeds, Images, NoData

VARIABLES
  store,     \* the live feeds: [feed, image], NoRow where there is none
  journal,   \* what is still to be sent
  answer     \* to the latest request, and the latest batch put into a buffer

vars == <<store, journal, answer>>

Code(c) == [code |-> c, batch |-> EmptyMap]

Told(u, needFeed, needImage, needDelete, needDeleteImage) ==
  journal' = [journal EXCEPT ![u] =
    Summed(IF @ = NoRow THEN Blank ELSE @,
           [needFeed   |-> needFeed,   needImage       |-> needImage,
            needDelete |-> needDelete, needDeleteImage |-> needDeleteImage])]

Refuse(c) == answer' = Code(c) /\ UNCHANGED <<store, journal>>

Post(u, feed, image) ==
  \/ store[u] # NoRow /\ Refuse(409)
  \/ /\ store[u] = NoRow
     /\ store' = [store EXCEPT ![u] = [feed |-> feed, image |-> image]]
     /\ Told(u, TRUE, image # NoData, FALSE, FALSE)
     /\ answer' = Code(201)

(* A PUT says whether the image changes.  The journal may leave out a feed *)
(* that stays the same, and nothing else.                                  *)
Put(u, feed, imageUpdate, image) ==
  \/ store[u] = NoRow /\ Refuse(404)
  \/ /\ store[u] # NoRow
     /\ store' = [store EXCEPT ![u] = [feed  |-> feed,
                                       image |-> IF imageUpdate THEN image ELSE @.image]]
     /\ \E needFeed \in {TRUE, feed # store[u].feed} :
          Told(u, needFeed, imageUpdate /\ image # NoData, FALSE, imageUpdate /\ image = NoData)
     /\ answer' = Code(204)

Delete(u) ==
  \/ store[u] = NoRow /\ Refuse(404)
  \/ /\ store[u] # NoRow
     /\ store' = [store EXCEPT ![u] = NoRow]
     /\ Told(u, FALSE, FALSE, TRUE, FALSE)
     /\ answer' = Code(204)

Message(u) ==
  [isDelete      |-> journal[u].shouldDeleted,
   isImageDelete |-> journal[u].shouldDeleteImage,
   feed          |-> IF journal[u].needFeed  THEN store[u].feed  ELSE NoData,
   image         |-> IF journal[u].needImage THEN store[u].image ELSE NoData]

Recruit ==
  \E S \in SUBSET Keys(journal) :
    /\ IsPrefixSet(S, Keys(journal))
    /\ answer' = [code |-> 0, batch |-> [u \in UUID |-> IF u \in S THEN Message(u) ELSE NoRow]]
    /\ journal' = Only(journal, UUID \ S)
    /\ UNCHANGED store

Init ==
  /\ store \in [UUID -> [feed : Feeds, image : Images \cup {NoData}] \cup {NoRow}]
  /\ journal = EmptyMap
  /\ answer = Code(0)

Next ==
  \/ \E u \in UUID, feed \in Feeds, image \in Images \cup {NoData} :
       Post(u, feed, image) \/ \E imageUpdate \in BOOLEAN : Put(u, feed, imageUpdate, image)
  \/ \E u \in UUID : Delete(u)
  \/ Recruit

Spec == Init /\ [][Next]_vars
=============================================================================
