----------------------------- MODULE TunnelLeases -----------------------------
(***************************************************************************)
(* What the registry's tunnel allocator promises: every session holds at   *)
(* most one slot, a grant takes in one step the free slot that comes next  *)
(* in scan order, and a request is denied only when no slot is free.       *)
(* TunnelPool implements this specification; Registry is built on it.      *)
(***************************************************************************)
EXTENDS TunnelIndex

CONSTANT Sessions

VARIABLES
    nextTunnelHint,     \* where the next scan starts
    lease,              \* session -> slot it holds, or NoSlot
    denied              \* sessions whose request got ErrTunnelExhausted

leaseVars == <<nextTunnelHint, lease, denied>>

LeaseTypeOK ==
    /\ nextTunnelHint \in tunnelIndex
    /\ lease \in [Sessions -> tunnelIndex \cup {NoSlot}]
    /\ denied \in SUBSET Sessions

Free == tunnelIndex \ {lease[s] : s \in Sessions}

LeaseInit ==
    /\ nextTunnelHint = firstTunnel
    /\ lease = [s \in Sessions |-> NoSlot]
    /\ denied = {}

Grant(s) ==
    \E c \in Nearest(nextTunnelHint, Free) :
        /\ lease' = [lease EXCEPT ![s] = c]
        /\ nextTunnelHint' = advanceTunnel(c)
        /\ denied' = denied \ {s}

Deny(s) ==
    /\ Free = {}
    /\ denied' = denied \cup {s}
    /\ UNCHANGED <<nextTunnelHint, lease>>

Release(s) ==
    /\ lease' = [lease EXCEPT ![s] = NoSlot]
    /\ UNCHANGED <<nextTunnelHint, denied>>

LeaseNext ==
    \E s \in Sessions :
        \/ lease[s] = NoSlot /\ Grant(s)
        \/ lease[s] = NoSlot /\ Deny(s)
        \/ Release(s)

LeaseSpec == LeaseInit /\ [][LeaseNext]_leaseVars

\* No two sessions hold the same slot (allocateTunnelIPs "assigns unique
\* per-session tunnel IPs").
LeaseUnique ==
    \A s, t \in Sessions :
        s # t /\ lease[s] # NoSlot => lease[s] # lease[t]
=============================================================================
