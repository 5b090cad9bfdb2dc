------------------------------ MODULE MCStores ------------------------------
(***************************************************************************)
(* Model-checking instance of Stores.                                      *)
(***************************************************************************)
EXTENDS Stores, TLC

\* Two IDs with a common prefix.
MCIds == {<<"a", "a">>, <<"a", "b">>}

Symmetry == Permutations(Callers) \cup Permutations(Owners)
=============================================================================
