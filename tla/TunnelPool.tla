------------------------------ MODULE TunnelPool ------------------------------
(***************************************************************************)
(* The tunnel allocator of internal/registry/server.go: two maps that must *)
(* stay inverse to each other, a scan hint, and a scan loop.  tunnelMu     *)
(* serialises the calls, so at most one allocateTunnelIPs call is inside   *)
(* its loop; the loop is modelled iteration by iteration.                  *)
(***************************************************************************)
EXTENDS TunnelIndex

CONSTANTS
    Sessions,
    NoSession           \* "index not allocated" / "no call holds tunnelMu"

ASSUME SessionAssumption == NoSession \notin Sessions

VARIABLES
    nextTunnelHint,
    usedTunnelIdxs,     \* session -> allocated index, or NoSlot
    usedTunnelSet,      \* index -> session, or NoSession
    caller,             \* session whose allocateTunnelIPs call holds tunnelMu
    candidate,          \* that call's loop variable
    denied              \* sessions whose last call returned ErrTunnelExhausted

vars == <<nextTunnelHint, usedTunnelIdxs, usedTunnelSet, caller, candidate,
          denied>>

Taken == {i \in tunnelIndex : usedTunnelSet[i] # NoSession}

TypeOK ==
    /\ nextTunnelHint \in tunnelIndex
    /\ usedTunnelIdxs \in [Sessions -> tunnelIndex \cup {NoSlot}]
    /\ usedTunnelSet \in [tunnelIndex -> Sessions \cup {NoSession}]
    /\ caller \in Sessions \cup {NoSession}
    /\ candidate \in tunnelIndex
    /\ denied \in SUBSET Sessions

Init ==
    /\ nextTunnelHint = firstTunnel
    /\ usedTunnelIdxs = [s \in Sessions |-> NoSlot]
    /\ usedTunnelSet = [i \in tunnelIndex |-> NoSession]
    /\ caller = NoSession
    /\ candidate = firstTunnel
    /\ denied = {}

\* Mutant: the capacity check is off by one.
exhausted_offByOne == Cardinality(Taken) > maxTunnelSlots

exhausted == Cardinality(Taken) >= maxTunnelSlots

\* allocateTunnelIPs enters with a session ID that holds nothing: CreateSession
\* has just made it with uuid.NewString.
AllocateBegin(s) ==
    /\ caller = NoSession
    /\ usedTunnelIdxs[s] = NoSlot
    /\ ~exhausted
    /\ caller' = s
    /\ candidate' = nextTunnelHint
    /\ UNCHANGED <<nextTunnelHint, usedTunnelIdxs, usedTunnelSet, denied>>

AllocateExhausted(s) ==
    /\ caller = NoSession
    /\ usedTunnelIdxs[s] = NoSlot
    /\ exhausted
    /\ denied' = denied \cup {s}
    /\ UNCHANGED <<nextTunnelHint, usedTunnelIdxs, usedTunnelSet, caller,
                   candidate>>

\* One iteration that finds the candidate taken.
ScanStep ==
    /\ caller # NoSession
    /\ usedTunnelSet[candidate] # NoSession
    /\ candidate' = advanceTunnel(candidate)
    /\ UNCHANGED <<nextTunnelHint, usedTunnelIdxs, usedTunnelSet, caller,
                   denied>>

\* Mutant: the reverse map is not written.
AllocateEnd_oneMap ==
    /\ caller # NoSession
    /\ usedTunnelSet[candidate] = NoSession
    /\ usedTunnelIdxs' = [usedTunnelIdxs EXCEPT ![caller] = candidate]
    /\ nextTunnelHint' = advanceTunnel(candidate)
    /\ caller' = NoSession
    /\ denied' = denied \ {caller}
    /\ UNCHANGED <<candidate, usedTunnelSet>>

\* The loop breaks at a free candidate: both maps are written, the hint moves
\* past it and tunnelMu is released.
AllocateEnd ==
    /\ caller # NoSession
    /\ usedTunnelSet[candidate] = NoSession
    /\ usedTunnelIdxs' = [usedTunnelIdxs EXCEPT ![caller] = candidate]
    /\ usedTunnelSet' = [usedTunnelSet EXCEPT ![candidate] = caller]
    /\ nextTunnelHint' = advanceTunnel(candidate)
    /\ caller' = NoSession
    /\ denied' = denied \ {caller}
    /\ UNCHANGED candidate

\* Mutant: the reverse map keeps the session.
reclaimTunnelIndex_oneMap(s) ==
    /\ caller = NoSession
    /\ usedTunnelIdxs[s] # NoSlot
    /\ usedTunnelIdxs' = [usedTunnelIdxs EXCEPT ![s] = NoSlot]
    /\ UNCHANGED <<nextTunnelHint, usedTunnelSet, caller, candidate, denied>>

reclaimTunnelIndex(s) ==
    /\ caller = NoSession
    /\ usedTunnelIdxs[s] # NoSlot
    /\ usedTunnelSet' = [usedTunnelSet EXCEPT ![usedTunnelIdxs[s]] = NoSession]
    /\ usedTunnelIdxs' = [usedTunnelIdxs EXCEPT ![s] = NoSlot]
    /\ UNCHANGED <<nextTunnelHint, caller, candidate, denied>>

Next ==
    \/ \E s \in Sessions :
        \/ AllocateBegin(s)
        \/ AllocateExhausted(s)
        \/ reclaimTunnelIndex(s)
    \/ ScanStep
    \/ AllocateEnd

Spec == Init /\ [][Next]_vars

\* A call that holds tunnelMu is a running goroutine and its loop does not
\* block, so its iterations go on; nobody is obliged to call.
FairSpec == Spec /\ WF_vars(ScanStep \/ AllocateEnd)
-----------------------------------------------------------------------------
\* usedTunnelIdxs and usedTunnelSet are inverse to each other: the "reverse
\* lookup" map never names a session that holds another index, and no session
\* holds an index the map gives to somebody else.
MapsInverse ==
    /\ \A s \in Sessions :
        usedTunnelIdxs[s] # NoSlot => usedTunnelSet[usedTunnelIdxs[s]] = s
    /\ \A i \in tunnelIndex :
        usedTunnelSet[i] # NoSession => usedTunnelIdxs[usedTunnelSet[i]] = i

\* While a call scans, every slot from the hint up to its candidate is taken
\* and some slot is still free: the scan skips nothing it could have used.
ScanSound ==
    caller # NoSession =>
        /\ usedTunnelIdxs[caller] = NoSlot
        /\ Taken # tunnelIndex
        /\ \A i \in tunnelIndex :
            Distance(nextTunnelHint, i) < Distance(nextTunnelHint, candidate)
                => i \in Taken

\* "We already checked len < max above, so this loop will terminate": a call
\* inside the loop returns.
ScanTerminates == caller # NoSession ~> caller = NoSession

\* The allocator implements its abstract specification: the two maps, the
\* mutex and the loop together behave as one-step grants of the next free slot.
Leases == INSTANCE TunnelLeases WITH lease <- usedTunnelIdxs

ImplementsLeases == Leases!LeaseSpec
=============================================================================
