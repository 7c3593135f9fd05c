------------------------------ MODULE MCServer ------------------------------
(***************************************************************************)
(* Server with a feed that fits into the pool, one that never does, and a  *)
(* small image.                                                            *)
(***************************************************************************)
EXTENDS Server

CONSTANTS f1, f2, i1

MCSize == [d \in Feeds \cup Images |-> CASE d = f1 -> 2 [] d = f2 -> 4 [] d = i1 -> 1]

(* No action reads batch or answer, and no invariant does.                 *)
StateView == <<dp, feedDb, disk, journal, durable, wedged>>
=============================================================================
