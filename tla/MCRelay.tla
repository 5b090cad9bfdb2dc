------------------------------- MODULE MCRelay -------------------------------
(* Relay for TLC: the first session has two relay clients and a plain      *)
(* WireGuard renter, the second one relay client and a plain renter.       *)
EXTENDS Relay, TLC

CONSTANTS t1, t2, p1, r1, p2, w1, w2

MCTokens == {t1, t2}
MCClients == {p1, r1, p2}
MCRawClients == {w1, w2}
MCTokenOf ==
    p1 :> t1 @@ r1 :> t1 @@ w1 :> t1 @@ p2 :> t2 @@ w2 :> t2

MCRawPorts == {44000, 44001}
MCDistinctPorts == t1 :> 44000 @@ t2 :> 44001

Symmetry == Permutations(Objects)
=============================================================================
