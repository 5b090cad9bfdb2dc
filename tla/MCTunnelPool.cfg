\* 2 majors x 2 minors = 4 slots, 5 sessions: wrap-around of either octet,
\* exhaustion, and reclaims in any order.  Minor 253..254 is the edge of uint8.
CONSTANTS
    MajorMin = 99
    MajorMax = 100
    MinorMin = 253
    MinorMax = 254
    NoSlot = NoSlot
    NoSession = NoSession
    Sessions = {s1, s2, s3, s4, s5}
SPECIFICATION FairSpec
INVARIANTS TypeOK MapsInverse ScanSound
PROPERTIES ScanTerminates ImplementsLeases
