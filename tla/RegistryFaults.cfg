\* PutSession may fail and the registry may stop between any two steps.
CONSTANTS
    MajorMin = 99
    MajorMax = 99
    MinorMin = 1
    MinorMax = 1
    NoSlot = NoSlot
    Absent = Absent
    Sessions = {s1, s2}
    Handlers = {h1, h2}
    Peers = {renter}
    Renter = renter
    SharedRecords = FALSE
    PutFailures = {"lost"}
    MaxRequests = 5
    MaxRestarts = 1
SPECIFICATION Spec
SYMMETRY Symmetry
INVARIANTS TerminatedReleased RunningHasEndpoint
CHECK_DEADLOCK FALSE
