------------------------------- MODULE PoolDb -------------------------------
(***************************************************************************)
(* What DB_CONNECT_FEED and DB_CONNECT_JOR have in common.  Writes are     *)
(* kept in transactionPool and sent as one REPLACE statement by flush,     *)
(* which a full pool, a read, or the detached cron thread triggers.        *)
(*                                                                         *)
(* A connection is a record: pool (transactionPool), table (in MySQL) and  *)
(* cleaner (isCleanerinitiate: a cron thread is asleep).  Every method     *)
(* catches sql::SQLException and goes on; each returns the set of its      *)
(* outcomes, one per way its statements can end.                           *)
(***************************************************************************)
EXTENDS UuidMaps

CONSTANTS
  POOL_LIMIT,   \* rows in transactionPool that force a flush
  SqlMayFail    \* may a statement raise SQLException?

ASSUME PoolAssumption == POOL_LIMIT \in Nat \ {0} /\ SqlMayFail \in BOOLEAN

(* How one SQL statement ends: TRUE unless it raised SQLException.         *)
SqlOk == IF SqlMayFail THEN BOOLEAN ELSE {TRUE}

(* What a reader of the connection is to see: pooled rows over stored ones.*)
Content(d) == Overlay(d.pool, d.table)

(* Slip: stored rows win over pooled ones.                                 *)
FlushKeepingStored(d) ==
  IF d.pool = EmptyMap
  THEN {d}
  ELSE {[d EXCEPT !.pool = EmptyMap, !.table = Overlay(@, d.pool)]}

(* flush empties the pool while it builds the statement: a failure before  *)
(* that leaves the pool as it was, and one in executeUpdate loses it.      *)
Flush(d) ==
  IF d.pool = EmptyMap
  THEN {d}
  ELSE {[d EXCEPT !.pool = EmptyMap, !.table = Content(d)]}
       \cup IF SqlMayFail THEN {d, [d EXCEPT !.pool = EmptyMap]} ELSE {}

(* Slip: the cron thread is started only after a forced flush.             *)
PushWithoutCleaner(d, u, req) ==
  LET pooled == [d EXCEPT !.pool[u] = req]
  IN  IF Cardinality(Keys(pooled.pool)) >= POOL_LIMIT
      THEN {[f EXCEPT !.cleaner = TRUE] : f \in Flush(pooled)}
      ELSE {pooled}

PushDataToDb(d, u, req) ==
  LET pooled == [d EXCEPT !.pool[u] = req]
  IN  IF Cardinality(Keys(pooled.pool)) >= POOL_LIMIT
      THEN Flush(pooled)
      ELSE {[pooled EXCEPT !.cleaner = TRUE]}

(* The cron thread wakes once, flushes and ends.                           *)
CronJob(d) == {[f EXCEPT !.cleaner = FALSE] : f \in Flush(d)}
=============================================================================
