------------------------------ MODULE Replica ------------------------------
(***************************************************************************)
(* client.py: the replica of the feeds and how a session merges what the   *)
(* server sends into it, "inspired from merge sort algorithm".             *)
(*                                                                         *)
(* The replica is a file of rows (jor.csv) and one file per image.  A      *)
(* session reads the rows into jorData, truncates the file, and writes     *)
(* rows back while it walks jorData once, beside the messages.  A session  *)
(* is a record: jor (jorData), iter (currentJorIter, from 1), out (every   *)
(* row put into writeBuffer so far, written or not) and images.            *)
(***************************************************************************)
EXTENDS Integers, SequencesExt

CONSTANTS
  NoData,             \* no feed, no image
  MAX_WRITE_BUFFER    \* rows in writeBuffer that are written to the file

ASSUME BufferAssumption == MAX_WRITE_BUFFER \in Nat \ {0}

Row(u, feed, image) == [uuid |-> u, feed |-> feed, image |-> image]

(* np.loadtxt gives an array without a dimension for a file of one row,    *)
(* which has no shape[0]: the exception leaves an empty replica.           *)
Loaded(file) == IF Len(file) = 1 THEN <<>> ELSE file

(* Where the walk over jorData stops for a message of u.                   *)
StopAt(s, u) ==
  Min({i \in s.iter .. Len(s.jor) : s.jor[i].uuid >= u} \cup {Len(s.jor) + 1})

(* Slip: an image is stored only over one that is there.                   *)
StoredOverOld(images, m) ==
  IF m.image # NoData /\ images[m.uuid] # NoData
  THEN [images EXCEPT ![m.uuid] = m.image] ELSE images

(* The file of an image that came with a message.                          *)
Stored(images, m) ==
  IF m.image # NoData THEN [images EXCEPT ![m.uuid] = m.image] ELSE images

(* A message of a uuid the replica does not have where the walk stands.    *)
AddNew(s, m) ==
  IF m.isDelete
  THEN s
  ELSE [s EXCEPT !.out = Append(@, Row(m.uuid, m.feed, ~m.isImageDelete /\ m.image # NoData)),
                 !.images = IF m.isImageDelete THEN @ ELSE Stored(@, m)]

(* Slip: the image of the replica is not looked at.                        *)
AddToRowForgettingImage(s, m) ==
  LET old == s.jor[s.iter]
      row == Row(m.uuid, IF m.feed # NoData THEN m.feed ELSE old.feed, m.image # NoData)
  IN  IF m.isDelete
      THEN [s EXCEPT !.iter = @ + 1]
      ELSE [s EXCEPT !.iter = @ + 1, !.out = Append(@, row), !.images = Stored(@, m)]

(* Slip: the walk does not pass the row that was merged.                   *)
AddToRowAndStay(s, m) ==
  LET old == s.jor[s.iter]
      row == Row(m.uuid, IF m.feed # NoData THEN m.feed ELSE old.feed,
                 ~m.isImageDelete /\ (old.image \/ m.image # NoData))
  IN  IF m.isDelete
      THEN [s EXCEPT !.iter = @ + 1]
      ELSE [s EXCEPT !.out = Append(@, row), !.images = Stored(@, m)]

(* Slip: the walk passes the row after it, too.                            *)
AddToRowAndSkip(s, m) ==
  LET old == s.jor[s.iter]
      row == Row(m.uuid, IF m.feed # NoData THEN m.feed ELSE old.feed,
                 ~m.isImageDelete /\ (old.image \/ m.image # NoData))
  IN  IF m.isDelete
      THEN [s EXCEPT !.iter = @ + 1]
      ELSE [s EXCEPT !.iter = @ + 2, !.out = Append(@, row), !.images = Stored(@, m)]

(* A message of the uuid of the row where the walk stands.                 *)
AddToRow(s, m) ==
  LET old == s.jor[s.iter]
      row == Row(m.uuid, IF m.feed # NoData THEN m.feed ELSE old.feed,
                 ~m.isImageDelete /\ (old.image \/ m.image # NoData))
  IN  IF m.isDelete
      THEN [s EXCEPT !.iter = @ + 1]
      ELSE [s EXCEPT !.iter = @ + 1, !.out = Append(@, row), !.images = Stored(@, m)]

(* merge for one message: smaller rows are copied, then it is added.       *)
MergeMessage(s, m) ==
  LET stop   == StopAt(s, m.uuid)
      copied == [s EXCEPT !.iter = stop, !.out = @ \o SubSeq(s.jor, s.iter, stop - 1)]
  IN  IF stop <= Len(s.jor) /\ s.jor[stop].uuid = m.uuid
      THEN AddToRow(copied, m)
      ELSE AddNew(copied, m)

Merge(s, messages) == FoldLeft(MergeMessage, s, messages)

(* The loop after getReq and the forced flush.                             *)
Finished(s) == s.out \o SubSeq(s.jor, s.iter, Len(s.jor))

(* Rows tryFlush has written.                                              *)
Written(s) == Len(s.out) - (Len(s.out) % MAX_WRITE_BUFFER)
=============================================================================
