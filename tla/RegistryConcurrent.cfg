\* PostgresStore, two overlapping calls, two sessions competing for one slot: any
\* release too early hands the slot on, any missing release exhausts the space.
\* The registry may stop: no request has to arrive.
CONSTANTS
    MajorMin = 99
    MajorMax = 99
    MinorMin = 1
    MinorMax = 1
    NoSlot = NoSlot
    Absent = Absent
    Sessions = {s1, s2}
    Handlers = {h1, h2}
    Peers = {renter}
    Renter = renter
    SharedRecords = FALSE
    PutFailures = {}
    MaxRequests = 5
    MaxRestarts = 0
SPECIFICATION FairSpec
INVARIANTS TypeOK TerminatedReleased TerminatedRecorded UnendedKeepsSlot UniqueTunnelIPs RunningHasEndpoint
PROPERTIES ExhaustedOnlyInUse EndReleases
CHECK_DEADLOCK FALSE
