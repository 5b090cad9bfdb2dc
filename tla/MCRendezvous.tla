---------------------------- MODULE MCRendezvous ----------------------------
EXTENDS Rendezvous, TLC

Symmetry == Permutations(Invocations) \cup Permutations(Starts)
=============================================================================
