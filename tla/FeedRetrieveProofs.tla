------------------------- MODULE FeedRetrieveProofs -------------------------
(***************************************************************************)
(* Proofs about FeedRetrieve, for every width of the index and every       *)
(* number of uuids in one statement.                                       *)
(***************************************************************************)
EXTENDS FeedRetrieve, TLAPS

(* What was read ends where the index stands, unless the last statement    *)
(* failed; the index has not passed the end.                               *)
Progress ==
  /\ absIter <= size
  /\ pc # "failed" => read = 0 .. absIter - 1
  /\ pc = "failed" => \E k \in 0 .. size : read = 0 .. k - 1

(* Statements are full as long as the index has not reached the end.       *)
InStatements == absIter < size => \E n \in Nat : absIter = n * RETRIEVE_LIMIT

(* A read that was cut short is longer than any number of statements whose *)
(* ends fit the word.                                                      *)
TooLong == \A n \in 0 .. WORD - 1 : n * RETRIEVE_LIMIT < WORD => size > n * RETRIEVE_LIMIT

Outcome ==
  /\ pc = "end" => absIter = size
  /\ pc = "empty" => TooLong

RetrieveInv == TypeOK /\ Progress /\ InStatements /\ Outcome

(* Storing a sum of two values of the type takes at most one WORD off it.  *)
LEMMA Wrap ==
  ASSUME NEW a \in 0 .. WORD - 1
  PROVE  (a + RETRIEVE_LIMIT) % WORD =
           IF a + RETRIEVE_LIMIT < WORD THEN a + RETRIEVE_LIMIT ELSE a + RETRIEVE_LIMIT - WORD
BY WordAssumption

(* A statement that starts within the vector ends within it. It is full    *)
(* unless it ends with the vector or beyond the word, and only in the last *)
(* case empty.                                                             *)
LEMMA EndIterBounds ==
  ASSUME NEW start \in 0 .. WORD - 1, size \in 0 .. WORD - 1, start < size
  PROVE  /\ EndIter(start) \in 0 .. size
         /\ start < EndIter(start) /\ EndIter(start) < size => EndIter(start) = start + RETRIEVE_LIMIT
         /\ EndIter(start) <= start => start + RETRIEVE_LIMIT >= WORD
BY Wrap, WordAssumption DEF EndIter, Smaller

(* Between two numbers of full statements there is no third.               *)
LEMMA NextStatement ==
  ASSUME NEW n \in Nat, NEW m \in Nat, n * RETRIEVE_LIMIT < m * RETRIEVE_LIMIT
  PROVE  n * RETRIEVE_LIMIT + RETRIEVE_LIMIT <= m * RETRIEVE_LIMIT
<1>1. RETRIEVE_LIMIT \in Nat \ {0}
  BY WordAssumption
<1>2. CASE n < m
  <2>1. m - n - 1 \in Nat
    BY <1>2
  <2>2. (m - n - 1) * RETRIEVE_LIMIT >= 0
    BY <1>1, <2>1
  <2>3. (m - n - 1) * RETRIEVE_LIMIT = m * RETRIEVE_LIMIT - n * RETRIEVE_LIMIT - RETRIEVE_LIMIT
    BY <1>1
  <2>4. QED
    BY <1>1, <2>2, <2>3
<1>3. CASE m <= n
  <2>1. (n - m) * RETRIEVE_LIMIT >= 0
    BY <1>1, <1>3
  <2>2. (n - m) * RETRIEVE_LIMIT = n * RETRIEVE_LIMIT - m * RETRIEVE_LIMIT
    BY <1>1
  <2>3. QED
    BY <1>1, <2>1, <2>2
<1>4. QED
  BY <1>2, <1>3

LEMMA InitRetrieve == Init => RetrieveInv
<1> SUFFICES ASSUME Init PROVE RetrieveInv
  OBVIOUS
<1>1. absIter = 0 * RETRIEVE_LIMIT
  BY WordAssumption DEF Init
<1>2. InStatements
  BY <1>1 DEF InStatements
<1>3. QED
  BY <1>2, WordAssumption DEF Init, RetrieveInv, TypeOK, Progress, Outcome

LEMMA SelectKeeps ==
  ASSUME RetrieveInv, Select
  PROVE  RetrieveInv'
<1> DEFINE end == EndIter(absIter)
<1>1. end \in 0 .. size /\ absIter < end
  BY EndIterBounds DEF RetrieveInv, TypeOK, Select
<1>2. read' = 0 .. end - 1
  <2>1. read = 0 .. absIter - 1 /\ absIter \in Nat
    BY DEF RetrieveInv, TypeOK, Progress, Select
  <2>2. read' = read \cup absIter .. end - 1
    BY DEF Select, Chunk
  <2>3. QED
    BY <1>1, <2>1, <2>2
<1>3. absIter' = end /\ size' = size /\ pc' = "loop"
  BY DEF Select
<1>4. InStatements'
  <2> SUFFICES ASSUME end < size PROVE \E n \in Nat : end = n * RETRIEVE_LIMIT
    BY <1>3 DEF InStatements
  <2>1. PICK n \in Nat : absIter = n * RETRIEVE_LIMIT
    BY DEF RetrieveInv, InStatements, Select
  <2>2. end = n * RETRIEVE_LIMIT + RETRIEVE_LIMIT
    BY <1>1, <2>1, EndIterBounds DEF RetrieveInv, TypeOK, Select
  <2>3. end = (n + 1) * RETRIEVE_LIMIT /\ n + 1 \in Nat
    BY <2>2, WordAssumption
  <2>4. QED
    BY <2>3
<1>5. QED
  BY <1>1, <1>2, <1>3, <1>4, WordAssumption DEF RetrieveInv, TypeOK, Progress, Outcome

LEMMA SelectFailsKeeps ==
  ASSUME RetrieveInv, SelectFails
  PROVE  RetrieveInv'
<1>1. EndIter(absIter) \in 0 .. size
  BY EndIterBounds DEF RetrieveInv, TypeOK, SelectFails
<1>2. absIter \in 0 .. size /\ read' = 0 .. absIter - 1
  BY DEF RetrieveInv, TypeOK, Progress, SelectFails
<1>3. InStatements'
  <2> SUFFICES ASSUME EndIter(absIter) < size PROVE \E n \in Nat : EndIter(absIter) = n * RETRIEVE_LIMIT
    BY DEF InStatements, SelectFails
  <2>1. PICK n \in Nat : absIter = n * RETRIEVE_LIMIT
    BY DEF RetrieveInv, InStatements, SelectFails
  <2>2. EndIter(absIter) = n * RETRIEVE_LIMIT + RETRIEVE_LIMIT
    BY <1>1, <2>1, EndIterBounds DEF RetrieveInv, TypeOK, SelectFails
  <2>3. EndIter(absIter) = (n + 1) * RETRIEVE_LIMIT /\ n + 1 \in Nat
    BY <2>2, WordAssumption
  <2>4. QED
    BY <2>3
<1>4. QED
  BY <1>1, <1>2, <1>3, WordAssumption DEF RetrieveInv, TypeOK, Progress, Outcome, SelectFails

LEMMA SelectNothingKeeps ==
  ASSUME RetrieveInv, SelectNothing
  PROVE  RetrieveInv'
<1>1. TooLong
  <2> SUFFICES ASSUME NEW m \in 0 .. WORD - 1, m * RETRIEVE_LIMIT < WORD, size <= m * RETRIEVE_LIMIT
               PROVE  FALSE
    BY WordAssumption DEF TooLong, RetrieveInv, TypeOK
  <2>1. PICK n \in Nat : absIter = n * RETRIEVE_LIMIT
    BY DEF RetrieveInv, InStatements, SelectNothing
  <2>2. absIter < size /\ absIter + RETRIEVE_LIMIT >= WORD /\ m \in Nat
    BY EndIterBounds, WordAssumption DEF RetrieveInv, TypeOK, SelectNothing
  <2>3. n * RETRIEVE_LIMIT \in Int /\ m * RETRIEVE_LIMIT \in Int /\ size \in Int
    BY <2>2, WordAssumption DEF RetrieveInv, TypeOK
  <2>4. n * RETRIEVE_LIMIT < m * RETRIEVE_LIMIT
    BY <2>1, <2>2, <2>3
  <2>5. n * RETRIEVE_LIMIT + RETRIEVE_LIMIT <= m * RETRIEVE_LIMIT
    BY <2>2, <2>4, NextStatement
  <2>6. QED
    BY <2>1, <2>2, <2>3, <2>5, WordAssumption
<1>2. QED
  BY <1>1 DEF RetrieveInv, TypeOK, Progress, InStatements, Outcome, TooLong, SelectNothing

LEMMA LeaveKeeps ==
  ASSUME RetrieveInv, Leave
  PROVE  RetrieveInv'
BY WordAssumption DEF RetrieveInv, TypeOK, Progress, InStatements, Outcome, Leave

LEMMA NextRetrieves == RetrieveInv /\ [Next]_vars => RetrieveInv'
<1> SUFFICES ASSUME RetrieveInv, [Next]_vars
             PROVE  RetrieveInv'
  OBVIOUS
<1>1. CASE Select        BY <1>1, SelectKeeps
<1>2. CASE SelectFails   BY <1>2, SelectFailsKeeps
<1>3. CASE SelectNothing BY <1>3, SelectNothingKeeps
<1>4. CASE Leave         BY <1>4, LeaveKeeps
<1>5. CASE UNCHANGED vars
  BY <1>5 DEF vars, RetrieveInv, TypeOK, Progress, InStatements, Outcome, TooLong
<1>6. QED
  BY <1>1, <1>2, <1>3, <1>4, <1>5 DEF Next

(* Index, positions and outcome of a read fit together in every state.     *)
LEMMA Retrieves == Spec => []RetrieveInv
BY InitRetrieve, NextRetrieves, PTL DEF Spec

(* The indexes stay values of the type of absIter and uuids.size(), and    *)
(* what was read is made of positions.                                     *)
THEOREM TypeCorrect == Spec => []TypeOK
<1>1. RetrieveInv => TypeOK
  BY DEF RetrieveInv
<1>2. QED
  BY <1>1, Retrieves, PTL

(* However wide the index and however long a statement, the results are    *)
(* the rows of the first uuids asked for, without a gap.                   *)
THEOREM ReadIsFirstPartCorrect == Spec => []ReadIsFirstPart
<1>1. RetrieveInv => ReadIsFirstPart
  <2> SUFFICES ASSUME RetrieveInv
               PROVE  \E k \in 0 .. size : read = 0 .. k - 1
    BY DEF ReadIsFirstPart
  <2>1. CASE pc = "failed"
    BY <2>1 DEF RetrieveInv, Progress
  <2>2. CASE pc # "failed"
    <3>1. absIter \in 0 .. size /\ read = 0 .. absIter - 1
      BY <2>2 DEF RetrieveInv, Progress, TypeOK
    <3>2. QED
      BY <3>1
  <2>3. QED
    BY <2>1, <2>2
<1>2. QED
  BY <1>1, Retrieves, PTL

(* A read is whole when it fits into statements whose ends do not wrap.    *)
THEOREM WholeReadCorrect == Spec => []WholeRead
<1>1. RetrieveInv => WholeRead
  <2> SUFFICES ASSUME RetrieveInv, NEW n \in 0 .. WORD - 1,
                      n * RETRIEVE_LIMIT < WORD, size <= n * RETRIEVE_LIMIT
               PROVE  (pc = "end" => read = 0 .. size - 1) /\ pc # "empty"
    BY DEF WholeRead
  <2>1. pc # "empty"
    <3>1. size \in Int /\ n * RETRIEVE_LIMIT \in Int
      BY WordAssumption DEF RetrieveInv, TypeOK
    <3>2. pc = "empty" => size > n * RETRIEVE_LIMIT
      BY DEF RetrieveInv, Outcome, TooLong
    <3>3. QED
      BY <3>1, <3>2
  <2>2. pc = "end" => read = 0 .. size - 1
    BY DEF RetrieveInv, Progress, Outcome
  <2>3. QED
    BY <2>1, <2>2
<1>2. QED
  BY <1>1, Retrieves, PTL

(* No position is read twice, and none after a later one.                  *)
THEOREM OnlyForwardCorrect == Spec => OnlyForward
<1>1. RetrieveInv /\ [Next]_vars =>
        [Select => \A p \in read, q \in Chunk(absIter, absIter') : p < q /\ absIter' > absIter]_vars
  <2> SUFFICES ASSUME RetrieveInv, Select
               PROVE  /\ absIter' > absIter
                      /\ \A p \in read, q \in Chunk(absIter, absIter') : p < q
    OBVIOUS
  <2>1. absIter \in Nat /\ read = 0 .. absIter - 1 /\ EndIter(absIter) \in Nat
    BY EndIterBounds DEF RetrieveInv, TypeOK, Progress, Select
  <2>2. absIter' = EndIter(absIter) /\ absIter < EndIter(absIter)
    BY DEF Select
  <2>3. QED
    BY <2>1, <2>2 DEF Chunk
<1>2. QED
  BY <1>1, Retrieves, PTL DEF Spec, OnlyForward
=============================================================================
