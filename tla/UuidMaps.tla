------------------------------ MODULE UuidMaps ------------------------------
(***************************************************************************)
(* Tables, std::maps and pools keyed by uuid, as functions on UUID with    *)
(* NoRow where there is no row.                                            *)
(*                                                                         *)
(* A uuid is a natural number: the code only compares uuids, with the      *)
(* order of std::map in the server and with ORDER BY and <= in the SQL it  *)
(* sends, and the two orders agree on lower-case uuids.                    *)
(***************************************************************************)
EXTENDS Integers, FiniteSets

CONSTANTS
  UUID,     \* the uuids a feed entry can have
  NoRow     \* "no row"

ASSUME UUIDAssumption == UUID \subseteq Nat /\ IsFiniteSet(UUID)

EmptyMap == [u \in UUID |-> NoRow]
Keys(m)  == {u \in UUID : m[u] # NoRow}

(* The rows of m whose uuid is in S.                                       *)
Only(m, S) == [u \in UUID |-> IF u \in S THEN m[u] ELSE NoRow]

(* REPLACE INTO: the rows of p over those of t.                            *)
Overlay(p, t) == [u \in UUID |-> IF p[u] # NoRow THEN p[u] ELSE t[u]]

(* S is what an iteration of K in uuid order has visited when it stops.    *)
IsPrefixSet(S, K) == S \subseteq K /\ \A v \in S : \A u \in K : u < v => u \in S
=============================================================================
