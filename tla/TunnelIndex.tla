----------------------------- MODULE TunnelIndex -----------------------------
(***************************************************************************)
(* The two-octet tunnel address space of internal/registry/server.go: a    *)
(* tunnelIndex <<Major, Minor>> names the pair 10.Major.Minor.1 (provider) *)
(* and 10.Major.Minor.2 (renter).  Pure definitions, shared by the         *)
(* allocator, by its abstract specification and by the registry.           *)
(***************************************************************************)
EXTENDS Integers, FiniteSets

CONSTANTS
    MajorMin, MajorMax,     \* tunnelMajorMin = 99, tunnelMajorMax = 126
    MinorMin, MinorMax,     \* tunnelMinorMin = 1,  tunnelMinorMax = 254
    NoSlot                  \* "no tunnel index allocated"

tunnelIndex == (MajorMin..MajorMax) \X (MinorMin..MinorMax)

\* Both octets are uint8: incrementing the largest one must not wrap to 0
\* before the comparison with the maximum, hence the bound 254.
ASSUME IndexAssumption ==
    /\ MajorMin \in Nat /\ MajorMax \in MajorMin..254
    /\ MinorMin \in Nat /\ MinorMax \in MinorMin..254
    /\ NoSlot \notin tunnelIndex

maxTunnelSlots == (MajorMax - MajorMin + 1) * (MinorMax - MinorMin + 1)

firstTunnel == <<MajorMin, MinorMin>>

uint8(n) == n % 256

\* Mutant: the major octet does not wrap.
advanceTunnel_noWrap(idx) ==
    LET minor == uint8(idx[2] + 1)
        major == uint8(idx[1] + 1)
    IN  IF minor > MinorMax THEN <<major, MinorMin>> ELSE <<idx[1], minor>>

advanceTunnel(idx) ==
    LET minor == uint8(idx[2] + 1)
        major == uint8(idx[1] + 1)
    IN  IF minor > MinorMax
        THEN <<IF major > MajorMax THEN MajorMin ELSE major, MinorMin>>
        ELSE <<idx[1], minor>>

(***************************************************************************)
(* The order in which the allocation scan visits the slots: Distance(a, b) *)
(* advances lead from a to b.                                              *)
(***************************************************************************)
Position(idx) ==
    (idx[1] - MajorMin) * (MinorMax - MinorMin + 1) + (idx[2] - MinorMin)

Distance(a, b) ==
    IF Position(b) >= Position(a)
    THEN Position(b) - Position(a)
    ELSE Position(b) - Position(a) + maxTunnelSlots

Nearest(hint, free) ==
    {c \in free : \A d \in free : Distance(hint, c) <= Distance(hint, d)}
=============================================================================
