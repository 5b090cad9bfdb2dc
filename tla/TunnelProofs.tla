----------------------------- MODULE TunnelProofs -----------------------------
(***************************************************************************)
(* Proofs about the tunnel allocator, for every address range that fits    *)
(* uint8 and every set of sessions.  First the address space: how many     *)
(* indices there are, and that the scan cycles through all of them.        *)
(***************************************************************************)
EXTENDS TunnelPool, FiniteSetTheorems, TLAPS

\* The number of minors per major, opaque in the arithmetic below.
W == MinorMax - MinorMin + 1

\* advanceTunnel stays inside the address range: neither octet wraps at 255.
LEMMA AdvanceType ==
    ASSUME NEW idx \in tunnelIndex
    PROVE  /\ advanceTunnel(idx) \in tunnelIndex
           /\ idx[2] < MinorMax => advanceTunnel(idx) = <<idx[1], idx[2] + 1>>
           /\ idx[2] = MinorMax /\ idx[1] < MajorMax
                => advanceTunnel(idx) = <<idx[1] + 1, MinorMin>>
           /\ idx[2] = MinorMax /\ idx[1] = MajorMax
                => advanceTunnel(idx) = firstTunnel
  <1>1. /\ idx[1] \in MajorMin..MajorMax /\ idx[2] \in MinorMin..MinorMax
        /\ idx = <<idx[1], idx[2]>>
    BY DEF tunnelIndex
  <1>2. /\ MajorMin \in Nat /\ MajorMax \in MajorMin..254
        /\ MinorMin \in Nat /\ MinorMax \in MinorMin..254
    BY IndexAssumption
  <1>3. uint8(idx[1] + 1) = idx[1] + 1 /\ uint8(idx[2] + 1) = idx[2] + 1
    BY <1>1, <1>2 DEF uint8
  <1> QED BY <1>1, <1>2, <1>3 DEF advanceTunnel, tunnelIndex, firstTunnel

\* maxTunnelSlots is the number of indices.
LEMMA SlotCount ==
    IsFiniteSet(tunnelIndex) /\ Cardinality(tunnelIndex) = maxTunnelSlots
  <1>1. /\ MajorMin \in Int /\ MajorMax \in Int /\ MajorMin <= MajorMax
        /\ MinorMin \in Int /\ MinorMax \in Int /\ MinorMin <= MinorMax
    BY IndexAssumption
  <1>2. /\ IsFiniteSet(MajorMin..MajorMax)
        /\ Cardinality(MajorMin..MajorMax) = MajorMax - MajorMin + 1
    BY <1>1, FS_Interval
  <1>3. /\ IsFiniteSet(MinorMin..MinorMax)
        /\ Cardinality(MinorMin..MinorMax) = MinorMax - MinorMin + 1
    BY <1>1, FS_Interval
  <1> QED BY <1>2, <1>3, FS_Product, ZenonT(60) DEF tunnelIndex, maxTunnelSlots

\* NewServer's first hint is an index.
LEMMA FirstTunnelType == firstTunnel \in tunnelIndex
  BY IndexAssumption DEF firstTunnel, tunnelIndex

-----------------------------------------------------------------------------
(* Positions: the scan order is a cycle through all indices.               *)

\* Positions lie below maxTunnelSlots; the last one is that of the last index.
LEMMA PositionRange ==
    ASSUME NEW idx \in tunnelIndex
    PROVE  /\ Position(idx) \in 0..(maxTunnelSlots - 1)
           /\ maxTunnelSlots \in Nat
           /\ Position(idx) = maxTunnelSlots - 1
                <=> idx[1] = MajorMax /\ idx[2] = MinorMax
  <1> DEFINE a == idx[1] - MajorMin
             b == idx[2] - MinorMin
             m == MajorMax - MajorMin
  <1>1. /\ a \in Nat /\ b \in Nat /\ m \in Nat /\ W \in Nat
        /\ a <= m /\ b < W
        /\ idx[1] \in Int /\ idx[2] \in Int
        /\ MajorMax \in Int /\ MinorMax \in Int /\ MajorMin \in Int /\ MinorMin \in Int
    BY IndexAssumption DEF tunnelIndex, W
  <1>2. Position(idx) = a * W + b /\ maxTunnelSlots = (m + 1) * W
    BY DEF Position, maxTunnelSlots, W
  <1>3. (idx[1] = MajorMax <=> a = m) /\ (idx[2] = MinorMax <=> b = W - 1)
    BY <1>1 DEF W
  <1> HIDE DEF a, b, m, W
  <1>4. (m + 1) * W = m * W + W /\ m * W \in Nat /\ a * W \in Nat
    BY <1>1
  <1>5. a <= m => a * W <= m * W
    BY <1>1
  <1>6. a < m => a * W + W <= m * W
    <2>1. SUFFICES ASSUME a < m PROVE a * W + W <= m * W
      OBVIOUS
    <2>2. (a + 1) * W <= m * W
      BY <1>1, <2>1
    <2> QED BY <1>1, <2>2
  <1> QED BY <1>1, <1>2, <1>3, <1>4, <1>5, <1>6

\* One advance moves one position on, and from the last position to the first.
LEMMA AdvancePosition ==
    ASSUME NEW idx \in tunnelIndex
    PROVE  Position(advanceTunnel(idx)) =
               IF Position(idx) = maxTunnelSlots - 1 THEN 0 ELSE Position(idx) + 1
  <1>1. /\ idx[1] \in MajorMin..MajorMax /\ idx[2] \in MinorMin..MinorMax
        /\ MajorMin \in Int /\ MajorMax \in Int /\ MinorMin \in Int /\ MinorMax \in Int
    BY IndexAssumption DEF tunnelIndex
  <1>2. CASE idx[2] < MinorMax
    <2>1. advanceTunnel(idx) = <<idx[1], idx[2] + 1>>
      BY <1>2, AdvanceType
    <2>2. Position(idx) # maxTunnelSlots - 1
      BY <1>1, <1>2, PositionRange
    <2>3. (idx[1] - MajorMin) * (MinorMax - MinorMin + 1) \in Int
      BY <1>1
    <2> QED BY <1>1, <2>1, <2>2, <2>3 DEF Position
  <1>3. CASE idx[2] = MinorMax /\ idx[1] < MajorMax
    <2>1. advanceTunnel(idx) = <<idx[1] + 1, MinorMin>>
      BY <1>3, AdvanceType
    <2>2. Position(idx) # maxTunnelSlots - 1
      BY <1>1, <1>3, PositionRange
    <2>3. (idx[1] + 1 - MajorMin) * (MinorMax - MinorMin + 1)
            = (idx[1] - MajorMin) * (MinorMax - MinorMin + 1)
                + (MinorMax - MinorMin + 1)
      BY <1>1
    <2>4. (idx[1] - MajorMin) * (MinorMax - MinorMin + 1) \in Int
      BY <1>1
    <2> QED BY <1>1, <1>3, <2>1, <2>2, <2>3, <2>4 DEF Position
  <1>4. CASE idx[2] = MinorMax /\ idx[1] = MajorMax
    <2>1. advanceTunnel(idx) = <<MajorMin, MinorMin>>
      BY <1>4, AdvanceType DEF firstTunnel
    <2>2. Position(<<MajorMin, MinorMin>>) = 0
      BY <1>1 DEF Position
    <2>3. Position(idx) = maxTunnelSlots - 1
      BY <1>4, PositionRange
    <2> QED BY <2>1, <2>2, <2>3
  <1> QED BY <1>1, <1>2, <1>3, <1>4

\* Different indices have different positions.
LEMMA PositionInjective ==
    ASSUME NEW i \in tunnelIndex, NEW j \in tunnelIndex,
           Position(i) = Position(j)
    PROVE  i = j
  <1> DEFINE a == i[1] - MajorMin
             b == i[2] - MinorMin
             c == j[1] - MajorMin
             d == j[2] - MinorMin
  <1>1. /\ a \in Nat /\ b \in Nat /\ c \in Nat /\ d \in Nat /\ W \in Nat
        /\ b < W /\ d < W
        /\ i[1] \in Int /\ i[2] \in Int /\ j[1] \in Int /\ j[2] \in Int
        /\ MajorMin \in Int /\ MinorMin \in Int
        /\ i = <<i[1], i[2]>> /\ j = <<j[1], j[2]>>
    BY IndexAssumption DEF tunnelIndex, W
  <1>2. a * W + b = c * W + d
    BY DEF Position, W
  <1>3. a = c /\ b = d => i = j
    BY <1>1
  <1> HIDE DEF a, b, c, d, W
  <1>4. \A x, y \in Nat : x < y => x * W + W <= y * W
    <2>1. SUFFICES ASSUME NEW x \in Nat, NEW y \in Nat, x < y
                   PROVE  x * W + W <= y * W
      OBVIOUS
    <2>2. (x + 1) * W <= y * W
      BY <1>1, <2>1
    <2> QED BY <1>1, <2>2
  <1>5. a * W \in Nat /\ c * W \in Nat
    BY <1>1
  <1>6. ~(a < c) /\ ~(c < a)
    BY <1>1, <1>2, <1>4, <1>5
  <1>7. a = c
    BY <1>1, <1>6
  <1>8. b = d
    BY <1>1, <1>2, <1>5, <1>7
  <1> QED BY <1>3, <1>7, <1>8

\* Distances from a fixed start: in range, injective, and one more per advance.
LEMMA DistanceFacts ==
    ASSUME NEW h \in tunnelIndex, NEW i \in tunnelIndex, NEW j \in tunnelIndex
    PROVE  /\ Distance(h, i) \in 0..(maxTunnelSlots - 1)
           /\ maxTunnelSlots \in Nat
           /\ Distance(h, h) = 0
           /\ Distance(h, i) = Distance(h, j) => i = j
           /\ Distance(h, advanceTunnel(i)) =
                IF Distance(h, i) = maxTunnelSlots - 1
                THEN 0 ELSE Distance(h, i) + 1
  <1>1. /\ Position(h) \in 0..(maxTunnelSlots - 1)
        /\ Position(i) \in 0..(maxTunnelSlots - 1)
        /\ Position(j) \in 0..(maxTunnelSlots - 1)
        /\ maxTunnelSlots \in Nat
    BY PositionRange
  <1>2. Distance(h, i) = Distance(h, j) => Position(i) = Position(j)
    BY <1>1 DEF Distance
  <1>3. Distance(h, i) = Distance(h, j) => i = j
    BY <1>2, PositionInjective
  <1>4. Distance(h, advanceTunnel(i)) =
            IF Distance(h, i) = maxTunnelSlots - 1 THEN 0 ELSE Distance(h, i) + 1
    BY <1>1, AdvancePosition DEF Distance
  <1>5. Distance(h, i) \in 0..(maxTunnelSlots - 1) /\ Distance(h, h) = 0
    BY <1>1 DEF Distance
  <1> QED BY <1>1, <1>3, <1>4, <1>5
-----------------------------------------------------------------------------
\* The length check of allocateTunnelIPs says exactly that no index is free.
LEMMA ExhaustedIffFull ==
    exhausted <=> Taken = tunnelIndex
  <1>1. Taken \subseteq tunnelIndex
    BY DEF Taken
  <1>2. /\ IsFiniteSet(Taken) /\ Cardinality(Taken) <= Cardinality(tunnelIndex)
        /\ Cardinality(Taken) = Cardinality(tunnelIndex) => Taken = tunnelIndex
    BY <1>1, SlotCount, FS_Subset
  <1>3. Cardinality(Taken) \in Nat /\ Cardinality(tunnelIndex) \in Nat
    BY <1>2, SlotCount, FS_CardinalityType
  <1> QED BY <1>2, <1>3, SlotCount DEF exhausted
-----------------------------------------------------------------------------
(***************************************************************************)
(* The inductive invariant.  MapsInverse alone is inductive, but that some *)
(* slot is free while a call scans, and that everything the scan has       *)
(* passed is taken, is what makes the loop correct; both need the two maps *)
(* to agree.                                                               *)
(***************************************************************************)
IInv == TypeOK /\ MapsInverse /\ ScanSound

\* NewServer establishes the inductive invariant.
LEMMA InitIInv == Init => IInv
  <1> SUFFICES ASSUME Init PROVE IInv
    OBVIOUS
  <1>1. TypeOK
    BY FirstTunnelType DEF Init, TypeOK
  <1>2. MapsInverse /\ ScanSound
    BY IndexAssumption, SessionAssumption DEF Init, MapsInverse, ScanSound
  <1> QED BY <1>1, <1>2 DEF IInv

\* Every step of allocateTunnelIPs and reclaimTunnelIndex preserves it.
LEMMA NextIInv == IInv /\ [Next]_vars => IInv'
  <1> SUFFICES ASSUME IInv, [Next]_vars PROVE IInv'
    OBVIOUS
  <1> USE DEF IInv
  <1>a. NoSlot \notin tunnelIndex /\ NoSession \notin Sessions
    BY IndexAssumption, SessionAssumption
  <1>1. ASSUME NEW s \in Sessions, AllocateBegin(s)
        PROVE  IInv'
    <2>1. TypeOK'
      BY <1>1 DEF AllocateBegin, TypeOK
    <2>2. MapsInverse'
      BY <1>1 DEF AllocateBegin, MapsInverse
    <2>3. Taken' = Taken /\ Taken # tunnelIndex
      BY <1>1, ExhaustedIffFull DEF AllocateBegin, Taken
    <2>4. \A i \in tunnelIndex : ~(Distance(nextTunnelHint, i) < 0)
      BY DistanceFacts DEF TypeOK
    <2>5. Distance(nextTunnelHint, nextTunnelHint) = 0
      BY DistanceFacts DEF TypeOK
    <2> QED BY <1>1, <2>1, <2>2, <2>3, <2>4, <2>5 DEF AllocateBegin, ScanSound
  <1>2. ASSUME NEW s \in Sessions, AllocateExhausted(s)
        PROVE  IInv'
    BY <1>2 DEF AllocateExhausted, TypeOK, MapsInverse, ScanSound, Taken
  <1>3. ASSUME NEW s \in Sessions, reclaimTunnelIndex(s)
        PROVE  IInv'
    <2>1. TypeOK'
      BY <1>3 DEF reclaimTunnelIndex, TypeOK
    <2>2. MapsInverse'
      BY <1>3, <1>a DEF reclaimTunnelIndex, TypeOK, MapsInverse
    <2>3. ScanSound'
      BY <1>3 DEF reclaimTunnelIndex, ScanSound
    <2> QED BY <2>1, <2>2, <2>3
  <1>4. CASE ScanStep
    <2>1. TypeOK'
      BY <1>4, AdvanceType DEF ScanStep, TypeOK
    <2>2. MapsInverse'
      BY <1>4 DEF ScanStep, MapsInverse
    <2>3. Taken' = Taken /\ candidate \in Taken
      BY <1>4 DEF ScanStep, Taken, TypeOK
    <2>4. ASSUME NEW i \in tunnelIndex,
                 Distance(nextTunnelHint, i)
                    < Distance(nextTunnelHint, advanceTunnel(candidate))
          PROVE  i \in Taken
      <3>1. /\ Distance(nextTunnelHint, i) \in Nat
            /\ Distance(nextTunnelHint, candidate) \in Nat
            /\ Distance(nextTunnelHint, advanceTunnel(candidate)) \in
                    {0, Distance(nextTunnelHint, candidate) + 1}
            /\ Distance(nextTunnelHint, i) = Distance(nextTunnelHint, candidate)
                    => i = candidate
        BY DistanceFacts DEF TypeOK
      <3>2. \/ Distance(nextTunnelHint, i) < Distance(nextTunnelHint, candidate)
            \/ i = candidate
        BY <2>4, <3>1
      <3> QED BY <1>4, <2>3, <3>2 DEF ScanStep, ScanSound
    <2> QED BY <1>4, <2>1, <2>2, <2>3, <2>4 DEF ScanStep, ScanSound
  <1>5. CASE AllocateEnd
    <2>1. TypeOK'
      BY <1>5, AdvanceType DEF AllocateEnd, TypeOK
    <2>2. MapsInverse'
      BY <1>5, <1>a DEF AllocateEnd, TypeOK, MapsInverse, ScanSound
    <2>3. ScanSound'
      BY <1>5 DEF AllocateEnd, ScanSound
    <2> QED BY <2>1, <2>2, <2>3
  <1>6. CASE UNCHANGED vars
    BY <1>6 DEF vars, TypeOK, MapsInverse, ScanSound, Taken
  <1> QED BY <1>1, <1>2, <1>3, <1>4, <1>5, <1>6 DEF Next

\* The two maps of the allocator are inverse to each other in every reachable
\* state, and a call inside the scan loop always has a free slot ahead of it.
THEOREM PoolSafety == Spec => [](TypeOK /\ MapsInverse /\ ScanSound)
  <1>1. Spec => []IInv
    BY InitIInv, NextIInv, PTL DEF Spec
  <1>2. IInv => TypeOK /\ MapsInverse /\ ScanSound
    BY DEF IInv
  <1> QED BY <1>1, <1>2, PTL

\* The allocator's maps, hint and loop variable hold what their Go types and the
\* octet ranges allow: advanceTunnel never leaves the address space.
THEOREM PoolTyped == Spec => []TypeOK
  BY PoolSafety, PTL

\* A call inside the loop has passed taken slots only, and a free one is left.
THEOREM ScanSkipsNothing == Spec => []ScanSound
  BY PoolSafety, PTL
-----------------------------------------------------------------------------
(***************************************************************************)
(* The loop of allocateTunnelIPs has no bound of its own.  Distance from   *)
(* the hint counts its iterations.                                         *)
(***************************************************************************)
\* How many iterations the call in the loop has made.
iterations == Distance(nextTunnelHint, candidate)

\* A step taken while a call scans ends the loop or adds one iteration: the scan
\* does not come round to its start.
ScanAdvances ==
    [][caller # NoSession => caller' = NoSession \/ iterations' = iterations + 1]_vars

\* A call in the loop of allocateTunnelIPs makes fewer than maxTunnelSlots
\* iterations, whatever the calls before it have taken and given back ("we already
\* checked len < max above, so this loop will terminate").
THEOREM ScanBounded ==
    Spec => [](iterations \in 0..(maxTunnelSlots - 1)) /\ ScanAdvances
  <1>1. Spec => []IInv
    BY InitIInv, NextIInv, PTL DEF Spec
  <1>2. IInv => iterations \in 0..(maxTunnelSlots - 1)
    BY DistanceFacts DEF IInv, TypeOK, iterations
  <1>3. ASSUME IInv, [Next]_vars
        PROVE  [caller # NoSession => caller' = NoSession \/ iterations' = iterations + 1]_vars
    <2>1. CASE ScanStep
      <3>1. nextTunnelHint' = nextTunnelHint /\ candidate' = advanceTunnel(candidate)
        BY <2>1 DEF ScanStep
      <3>2. nextTunnelHint \in tunnelIndex /\ candidate \in tunnelIndex
        BY <1>3 DEF IInv, TypeOK
      <3>3. Distance(nextTunnelHint, advanceTunnel(candidate)) =
                IF Distance(nextTunnelHint, candidate) = maxTunnelSlots - 1
                THEN 0 ELSE Distance(nextTunnelHint, candidate) + 1
        BY <3>2, DistanceFacts
      <3>4. ASSUME Distance(nextTunnelHint, candidate) = maxTunnelSlots - 1
            PROVE  FALSE
        <4>1. PICK i \in tunnelIndex : i \notin Taken
          BY <1>3, <2>1 DEF IInv, ScanSound, ScanStep, Taken
        <4>2. i # candidate
          BY <2>1, <4>1 DEF ScanStep, Taken
        <4>3. /\ Distance(nextTunnelHint, i) \in 0..(maxTunnelSlots - 1)
              /\ maxTunnelSlots \in Nat
              /\ Distance(nextTunnelHint, i) # Distance(nextTunnelHint, candidate)
          BY <3>2, <4>2, DistanceFacts
        <4>4. Distance(nextTunnelHint, i) < Distance(nextTunnelHint, candidate)
          BY <3>4, <4>3
        <4> QED BY <1>3, <2>1, <4>1, <4>4 DEF IInv, ScanSound, ScanStep
      <3> QED BY <3>1, <3>3, <3>4 DEF iterations
    <2>2. CASE AllocateEnd
      BY <2>2 DEF AllocateEnd
    <2>3. CASE \E s \in Sessions :
                    AllocateBegin(s) \/ AllocateExhausted(s) \/ reclaimTunnelIndex(s)
      BY <2>3 DEF AllocateBegin, AllocateExhausted, reclaimTunnelIndex
    <2>4. CASE UNCHANGED vars
      BY <2>4
    <2> QED BY <1>3, <2>1, <2>2, <2>3, <2>4 DEF Next
  <1> QED BY <1>1, <1>2, <1>3, PTL DEF Spec, ScanAdvances
-----------------------------------------------------------------------------
(***************************************************************************)
(* Refinement: AllocateEnd is the abstract grant, the iterations before it *)
(* are stuttering.                                                         *)
(***************************************************************************)
\* The abstract free slots are those the reverse map has no session for.
LEMMA LeasesFree ==
    ASSUME IInv
    PROVE  Leases!Free = tunnelIndex \ Taken
  <1>1. Leases!Free = tunnelIndex \ {usedTunnelIdxs[s] : s \in Sessions}
    BY DEF Leases!Free, Leases!tunnelIndex, tunnelIndex
  <1>2. ASSUME NEW i \in tunnelIndex
        PROVE  i \in Taken <=> \E s \in Sessions : usedTunnelIdxs[s] = i
    <2>1. i # NoSlot
      BY IndexAssumption
    <2> QED BY <2>1, SessionAssumption DEF IInv, TypeOK, MapsInverse, Taken
  <1> QED BY <1>1, <1>2

\* The instance's scan order is the module's own.
LEMMA LeasesNearest ==
    ASSUME NEW h, NEW F
    PROVE  Leases!Nearest(h, F) = Nearest(h, F)
  BY DEF Leases!Nearest, Nearest, Leases!Distance, Distance,
         Leases!Position, Position, Leases!maxTunnelSlots, maxTunnelSlots

\* The instance's advanceTunnel is the module's own.
LEMMA LeasesAdvance ==
    ASSUME NEW i
    PROVE  Leases!advanceTunnel(i) = advanceTunnel(i)
  BY DEF Leases!advanceTunnel, advanceTunnel, Leases!uint8, uint8

\* Every allocator step is an abstract step or a stutter.
LEMMA StepRefines ==
    IInv /\ [Next]_vars => [Leases!LeaseNext]_(Leases!leaseVars)
  <1> SUFFICES ASSUME IInv, [Next]_vars
               PROVE  [Leases!LeaseNext]_(Leases!leaseVars)
    OBVIOUS
  <1>1. ASSUME NEW s \in Sessions, AllocateBegin(s)
        PROVE  UNCHANGED Leases!leaseVars
    BY <1>1 DEF AllocateBegin, Leases!leaseVars
  <1>2. ASSUME NEW s \in Sessions, AllocateExhausted(s)
        PROVE  Leases!LeaseNext
    <2>1. Leases!Free = {}
      BY <1>2, LeasesFree, ExhaustedIffFull DEF AllocateExhausted
    <2>2. Leases!Deny(s) /\ usedTunnelIdxs[s] = NoSlot
      BY <1>2, <2>1 DEF AllocateExhausted, Leases!Deny
    <2> QED BY <2>2 DEF Leases!LeaseNext
  <1>3. ASSUME NEW s \in Sessions, reclaimTunnelIndex(s)
        PROVE  Leases!LeaseNext
    <2>1. Leases!Release(s)
      BY <1>3 DEF reclaimTunnelIndex, Leases!Release
    <2> QED BY <2>1 DEF Leases!LeaseNext
  <1>4. CASE ScanStep
    BY <1>4 DEF ScanStep, Leases!leaseVars
  <1>5. CASE AllocateEnd
    <2>1. candidate \in tunnelIndex \ Taken
      BY <1>5 DEF AllocateEnd, Taken, IInv, TypeOK
    <2>2. ASSUME NEW d \in tunnelIndex \ Taken
          PROVE  Distance(nextTunnelHint, candidate) <= Distance(nextTunnelHint, d)
      <3>1. ~(Distance(nextTunnelHint, d) < Distance(nextTunnelHint, candidate))
        BY <1>5 DEF AllocateEnd, IInv, ScanSound
      <3>2. /\ Distance(nextTunnelHint, d) \in Nat
            /\ Distance(nextTunnelHint, candidate) \in Nat
        BY DistanceFacts DEF IInv, TypeOK
      <3> QED BY <3>1, <3>2
    <2>3. candidate \in Leases!Nearest(nextTunnelHint, Leases!Free)
      BY <2>1, <2>2, LeasesFree, LeasesNearest DEF Nearest
    <2>4. Leases!Grant(caller)
      BY <1>5, <2>3, LeasesAdvance DEF AllocateEnd, Leases!Grant
    <2>5. caller \in Sessions /\ usedTunnelIdxs[caller] = NoSlot
      BY <1>5 DEF AllocateEnd, IInv, TypeOK, ScanSound
    <2> QED BY <2>4, <2>5 DEF Leases!LeaseNext
  <1>6. CASE UNCHANGED vars
    BY <1>6 DEF vars, Leases!leaseVars
  <1> QED BY <1>1, <1>2, <1>3, <1>4, <1>5, <1>6 DEF Next

\* An initial allocator is initial in the abstract specification.
LEMMA InitRefines == Init => Leases!LeaseInit
  BY DEF Init, Leases!LeaseInit, Leases!firstTunnel, firstTunnel

\* The allocator implements its abstract specification: a granted slot is the
\* next free one in scan order, and ErrTunnelExhausted is returned only when
\* every index is held by a session.
THEOREM PoolImplementsLeases == Spec => ImplementsLeases
  <1>1. Spec => []IInv
    BY InitIInv, NextIInv, PTL DEF Spec
  <1> QED BY <1>1, InitRefines, StepRefines, PTL
          DEF Spec, ImplementsLeases, Leases!LeaseSpec
=============================================================================
