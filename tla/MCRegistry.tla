------------------------------ MODULE MCRegistry ------------------------------
(* Registry for TLC.                                                       *)
EXTENDS Registry, TLC

Symmetry == Permutations(Handlers) \cup Permutations(Sessions)
=============================================================================
