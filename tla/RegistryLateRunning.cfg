CONSTANTS
    MajorMin = 99
    MajorMax = 99
    MinorMin = 1
    MinorMax = 1
    NoSlot = NoSlot
    Absent = Absent
    Sessions = {s1, s2}
    Handlers = {h1}
    Peers = {renter}
    Renter = renter
    SharedRecords = FALSE
    PutFailures = {}
    MaxRequests = 5
    MaxRestarts = 0
SPECIFICATION Spec
SYMMETRY Symmetry
INVARIANTS UniqueLiveTunnelIPs
CHECK_DEADLOCK FALSE
