----------------------------- MODULE MCTunnelPool -----------------------------
(* TunnelPool for TLC: two majors, so that both octets wrap, and more      *)
(* sessions than slots, so that the space is exhausted.                    *)
EXTENDS TunnelPool
=============================================================================
