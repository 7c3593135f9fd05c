----------------------------- MODULE MCDispatch -----------------------------
(***************************************************************************)
(* Dispatch with interchangeable workers.                                  *)
(***************************************************************************)
EXTENDS Dispatch, TLC

Symmetry == Permutations(Getters) \cup Permutations(Writers)
=============================================================================
