---------------------------- MODULE FeedRetrieve ----------------------------
(***************************************************************************)
(* The loop of DB_CONNECT_FEED::getDataFromDb, which cuts a long read into *)
(* statements of RETRIEVE_LIMIT uuids.  Its indexes are uint16_t: a sum of *)
(* them is cut to 16 bits when it is stored.                               *)
(*                                                                         *)
(* A uuid is its position in the vector asked for.  What FeedDb takes from *)
(* this module: the positions read are always a first part of those asked  *)
(* for, whole statements long, and all of them if none fails (WholeRead).  *)
(***************************************************************************)
EXTENDS Integers

CONSTANTS
  WORD,             \* the values of a uint16_t
  RETRIEVE_LIMIT,   \* uuids in one statement
  MayFail           \* may a statement raise SQLException?

ASSUME WordAssumption ==
  /\ WORD \in Nat /\ RETRIEVE_LIMIT \in 1 .. WORD - 1
  /\ MayFail \in BOOLEAN

VARIABLES
  size,      \* uuids.size(), no more than a uint16_t holds: MAX_MESSAGE_TO_UPDATE is one
  absIter,
  read,      \* the positions whose rows were appended to results
  pc         \* "loop", "end", or which statement threw: "failed", "empty"

vars == <<size, absIter, read, pc>>

Smaller(a, b) == IF a <= b THEN a ELSE b

(* Slips: the end is not held to the size; it is that of a shorter word.   *)
EndPastSize(start) == start + RETRIEVE_LIMIT
EndInShorterWord(start) == Smaller((start + RETRIEVE_LIMIT) % (WORD \div 2), size)

(* endIter of a statement that starts at start.                            *)
EndIter(start) == Smaller((start + RETRIEVE_LIMIT) % WORD, size)

Chunk(start, end) == start .. end - 1

Init ==
  /\ size \in 0 .. WORD - 1
  /\ absIter = 0
  /\ read = {}
  /\ pc = "loop"

(* Slip: a statement is sent again from wherever the index has wrapped to. *)
SelectWrapping ==
  /\ pc = "loop" /\ absIter < size
  /\ absIter' = EndIter(absIter)
  /\ read' = read \cup Chunk(absIter, EndIter(absIter))
  /\ UNCHANGED <<size, pc>>

Select ==
  /\ pc = "loop" /\ absIter < size
  /\ absIter < EndIter(absIter)
  /\ absIter' = EndIter(absIter)
  /\ read' = read \cup Chunk(absIter, EndIter(absIter))
  /\ UNCHANGED <<size, pc>>

(* A statement that fails leaves the rows of those before it.              *)
SelectFails ==
  /\ MayFail
  /\ pc = "loop" /\ absIter < size
  /\ absIter < EndIter(absIter)
  /\ absIter' = EndIter(absIter)
  /\ pc' = "failed"
  /\ UNCHANGED <<size, read>>

(* Slip: an empty statement is not executed.                               *)
SkipNothing ==
  /\ pc = "loop" /\ absIter < size
  /\ EndIter(absIter) <= absIter
  /\ UNCHANGED vars

(* With the end at or before the start the statement is empty, and         *)
(* executing it fails.                                                     *)
SelectNothing ==
  /\ pc = "loop" /\ absIter < size
  /\ EndIter(absIter) <= absIter
  /\ pc' = "empty"
  /\ UNCHANGED <<size, absIter, read>>

Leave ==
  /\ pc = "loop" /\ absIter >= size
  /\ pc' = "end"
  /\ UNCHANGED <<size, absIter, read>>

Next == Select \/ SelectFails \/ SelectNothing \/ Leave

Spec == Init /\ [][Next]_vars
FairSpec == Spec /\ WF_vars(Next)

-----------------------------------------------------------------------------
TypeOK ==
  /\ size \in 0 .. WORD - 1 /\ absIter \in 0 .. WORD - 1
  /\ read \in SUBSET (0 .. WORD - 1)
  /\ pc \in {"loop", "end", "failed", "empty"}

(* recruit takes the k-th result for the k-th uuid it asked for: whatever  *)
(* the chunks, the wrap of the index and a failure do, what was read is a  *)
(* first part of what was asked for, with no gap.                          *)
ReadIsFirstPart == \E k \in 0 .. size : read = 0 .. k - 1

(* A read that fits into whole statements whose ends are all values of the *)
(* word (65 statements, 65000 uuids, in the code) is never cut short,      *)
(* unless a statement fails.                                               *)
WholeRead ==
  \A n \in 0 .. WORD - 1 :
    n * RETRIEVE_LIMIT < WORD /\ size <= n * RETRIEVE_LIMIT =>
      /\ pc = "end" => read = 0 .. size - 1
      /\ pc # "empty"

(* Statements go forward: none asks again for rows already in results, as  *)
(* a wrapped index would, and rows come in the order asked for.            *)
OnlyForward == [][Select => \A p \in read, q \in Chunk(absIter, absIter') : p < q /\ absIter' > absIter]_vars

(* The loop ends, also where its index wraps.                              *)
Ends == <>(pc # "loop")
=============================================================================
