------------------------------- MODULE FeedDb -------------------------------
(***************************************************************************)
(* DB_CONNECT_FEED: the connection to the feed table, feed_tb.  A deleted  *)
(* feed stays as a row whose isDelete is set.                              *)
(***************************************************************************)
EXTENDS PoolDb

CONSTANT RETRIEVE_LIMIT   \* rows in one SELECT

ASSUME FeedDbAssumption == RETRIEVE_LIMIT \in Nat \ {0}

(* areThereKey: the pooled row decides; if there is none, the stored one   *)
(* does, and a SELECT that fails counts as "no".                           *)
Live(row) == row # NoRow /\ ~row.isDelete

AreThereKey(d, u) ==
  IF d.pool[u] # NoRow THEN {Live(d.pool[u])} ELSE {ok /\ Live(d.table[u]) : ok \in SqlOk}

(* Slip: the caller does not move on from the first row.                   *)
TakenFirst(t, asked, reached) ==
  [u \in UUID |-> IF u \in asked /\ \E v \in reached : t[v] # NoRow
                  THEN t[CHOOSE v \in reached : t[v] # NoRow /\ \A w \in reached : t[w] # NoRow => v <= w]
                  ELSE NoRow]

(* getDataFromDb: the rows come in the order asked for, but nothing stands *)
(* in the place of one that is missing.  The caller takes the k-th row for *)
(* the k-th uuid it asked for: here result[u] is what it takes for u, and  *)
(* NoRow is past the end.  Reached are the uuids whose rows were read.     *)
Taken(t, asked, reached) ==
  LET Rank(S, u) == Cardinality({v \in S : v <= u})
      present    == reached \cap Keys(t)
  IN  [u \in UUID |->
         IF u \in asked /\ Rank(asked, u) <= Cardinality(present)
         THEN t[CHOOSE v \in present : Rank(present, v) = Rank(asked, u)]
         ELSE NoRow]

(* The uuids whose rows are read: a SELECT that fails ends the read, and   *)
(* those before it keep what they found.  FeedRetrieve has the loop.       *)
Reached(asked) ==
  {asked} \cup
  IF SqlMayFail
  THEN {P \in SUBSET asked : IsPrefixSet(P, asked) /\ Cardinality(P) % RETRIEVE_LIMIT = 0}
  ELSE {}

(* Slip: the pool is not flushed before the SELECT.                        *)
GetDataUnflushed(d, asked) ==
  {[db |-> d, result |-> Taken(d.table, asked, P)] : P \in Reached(asked)}

GetDataFromDb(d, asked) ==
  UNION {{[db |-> f, result |-> Taken(f.table, asked, P)] : P \in Reached(asked)} : f \in Flush(d)}
=============================================================================
