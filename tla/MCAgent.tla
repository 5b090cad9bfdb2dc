------------------------------- MODULE MCAgent -------------------------------
(* Agent for TLC.                                                          *)
EXTENDS Agent, TLC

Symmetry == Permutations(Starts) \cup Permutations(Stops)
=============================================================================
