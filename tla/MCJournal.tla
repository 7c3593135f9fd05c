------------------------------ MODULE MCJournal ------------------------------
(***************************************************************************)
(* Journal on three uuids.                                                 *)
(***************************************************************************)
EXTENDS Journal

Cmd(feed, image, delete, deleteImage) ==
  [needFeed |-> feed, needImage |-> image,
   needDelete |-> delete, needDeleteImage |-> deleteImage]

(* POST with an image, PUTs of a new feed, of a new image, and of neither  *)
(* that drops the image, DELETE.                                           *)
MCCommands ==
  {Cmd(TRUE, TRUE, FALSE, FALSE), Cmd(TRUE, FALSE, FALSE, FALSE), Cmd(FALSE, TRUE, FALSE, FALSE),
   Cmd(FALSE, FALSE, FALSE, TRUE), Cmd(FALSE, FALSE, TRUE, FALSE)}

(* A PUT of the feed alone and a PUT of the image alone: rows that differ  *)
(* from their sum, for a smaller state space.                              *)
MCFeedImage == {Cmd(TRUE, FALSE, FALSE, FALSE), Cmd(FALSE, TRUE, FALSE, FALSE)}

MCStoredRows == {[Blank EXCEPT !.needFeed = TRUE, !.needImage = TRUE]}
=============================================================================
