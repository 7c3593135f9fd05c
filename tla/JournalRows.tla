----------------------------- MODULE JournalRows -----------------------------
(***************************************************************************)
(* The rows of the journal: which updates a synchronising client still has *)
(* to be told of, one request row per uuid.                                *)
(***************************************************************************)
EXTENDS UuidMaps

(* struct REQ_DATA *)
ReqRecord == [needFeed : BOOLEAN, needImage : BOOLEAN,
              shouldDeleted : BOOLEAN, shouldDeleteImage : BOOLEAN]

ASSUME ReqAssumption == NoRow \notin ReqRecord

Blank == [needFeed |-> FALSE, needImage |-> FALSE,
          shouldDeleted |-> FALSE, shouldDeleteImage |-> FALSE]

(* The requests a journal row may hold: a deleted uuid asks for nothing    *)
(* else, and a row never asks to fetch and to drop the image at once.      *)
ReqData == {r \in ReqRecord :
              /\ r.shouldDeleted => ~(r.needFeed \/ r.needImage \/ r.shouldDeleteImage)
              /\ ~(r.needImage /\ r.shouldDeleteImage)}

(* The argument lists the three HTTP handlers give to CLIENT::update.      *)
Command == {c \in [needFeed : BOOLEAN, needImage : BOOLEAN,
                   needDelete : BOOLEAN, needDeleteImage : BOOLEAN] :
              /\ c.needDelete => ~(c.needFeed \/ c.needImage \/ c.needDeleteImage)
              /\ ~(c.needImage /\ c.needDeleteImage)}

(* Slip: a delete that leaves the older requests in the row.               *)
SummedKeepingRequests(old, c) ==
  IF c.needDelete
  THEN [old EXCEPT !.shouldDeleted = TRUE]
  ELSE [needFeed          |-> old.needFeed \/ c.needFeed,
        needImage         |-> ~c.needDeleteImage /\ (old.needImage \/ c.needImage),
        shouldDeleted     |-> FALSE,
        shouldDeleteImage |-> c.needDeleteImage]

(* How one more update of a uuid is added to the row it already has.       *)
Summed(old, c) ==
  IF c.needDelete
  THEN [Blank EXCEPT !.shouldDeleted = TRUE]
  ELSE [needFeed          |-> old.needFeed \/ c.needFeed,
        needImage         |-> ~c.needDeleteImage /\ (old.needImage \/ c.needImage),
        shouldDeleted     |-> FALSE,
        shouldDeleteImage |-> c.needDeleteImage]

-----------------------------------------------------------------------------
RowMap == [UUID -> ReqData \cup {NoRow}]
=============================================================================
