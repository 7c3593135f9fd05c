--------------------------- MODULE JournalPromise ---------------------------
(***************************************************************************)
(* What the synchroniser's journal promises, whatever it caches: one map   *)
(* from uuid to the sum of the updates the client has not been given, a    *)
(* part of it already durable.                                             *)
(***************************************************************************)
EXTENDS JournalRows

CONSTANT Commands    \* the commands the HTTP handlers issue

VARIABLES
  journal,   \* what is still to be handed over
  durable,   \* what of it a restarted server finds
  batch      \* the rows a hand-over gave to a buffer, until the next update

vars == <<journal, durable, batch>>

Init ==
  /\ journal \in RowMap
  /\ durable = journal
  /\ batch = EmptyMap

(* An update is summed into its row at once; what was written before it,   *)
(* or all of it, may become durable in the same step.                      *)
Absorb(u, c) ==
  LET old == IF journal[u] = NoRow THEN Blank ELSE journal[u]
  IN  /\ journal' = [journal EXCEPT ![u] = Summed(old, c)]
      /\ durable' \in {durable, journal, journal'}
      /\ batch' = EmptyMap

(* The smallest uuids are handed over, exactly as journalled, and are gone *)
(* for good in the same step: nothing waits for the client to confirm.     *)
HandOver ==
  \E S \in SUBSET Keys(journal) :
    /\ IsPrefixSet(S, Keys(journal))
    /\ batch' = Only(journal, S)
    /\ journal' = Only(journal, UUID \ S)
    /\ durable' \in IF S = {} THEN {durable, journal} ELSE {journal'}

Persist == durable' = journal /\ UNCHANGED <<journal, batch>>

Restart == journal' = durable /\ batch' = EmptyMap /\ UNCHANGED durable

Next ==
  \/ \E u \in UUID, c \in Commands : Absorb(u, c)
  \/ HandOver
  \/ Persist
  \/ Restart

Spec == Init /\ [][Next]_vars
=============================================================================
