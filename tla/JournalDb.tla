------------------------------ MODULE JournalDb ------------------------------
(***************************************************************************)
(* DB_CONNECT_JOR: the connection to the journal table, jor_tb.            *)
(***************************************************************************)
EXTENDS PoolDb, JournalRows

CONSTANT RETRIEVE_LIMIT   \* LIMIT of the SELECT that refills the pending list

ASSUME LimitAssumption == RETRIEVE_LIMIT \in Nat \ {0}

Connection == [pool : RowMap, table : RowMap, cleaner : BOOLEAN]

(* Slips: the pool is not flushed first; the last row itself stays.        *)
ClearTableOnly(d, last) ==
  {[d EXCEPT !.table = IF ok THEN Only(@, {u \in UUID : u > last}) ELSE @] : ok \in SqlOk}

ClearBelowLast(d, last) ==
  UNION {{[f EXCEPT !.table = IF ok THEN Only(@, {u \in UUID : u >= last}) ELSE @] : ok \in SqlOk}
           : f \in Flush(d)}

(* DELETE FROM jor_tb where uuid <= last.                                  *)
NotifyToClearDb(d, last) ==
  UNION {{[f EXCEPT !.table = IF ok THEN Only(@, {u \in UUID : u > last}) ELSE @] : ok \in SqlOk}
           : f \in Flush(d)}

(* One row, for CLIENT::update: the connection and the row found.          *)
GetData(d, u) ==
  UNION {{[db |-> f, row |-> IF ok THEN f.table[u] ELSE NoRow] : ok \in SqlOk} : f \in Flush(d)}

(* ORDER BY uuid ASC LIMIT n returns the first rows of t; a failed SELECT  *)
(* returns none.                                                           *)
FirstRows(t) ==
  LET n == Cardinality(Keys(t))
  IN  {Only(t, S) : S \in {P \in SUBSET Keys(t) :
         IsPrefixSet(P, Keys(t)) /\ Cardinality(P) = IF n < RETRIEVE_LIMIT THEN n ELSE RETRIEVE_LIMIT}}

GetBatchData(d) ==
  UNION {UNION {{[db |-> f, rows |-> r] : r \in IF ok THEN FirstRows(f.table) ELSE {EmptyMap}}
                  : ok \in SqlOk} : f \in Flush(d)}
=============================================================================
