\* A timeout of one tick: an age can be fresh, at the limit or stale.
CONSTANTS
    Agents = {a1}
    ProviderIDs = {i1, i2}
    Handlers = {h1, h2}
    heartbeatTimeout = 1
    None = None
    Absent = Absent
SPECIFICATION FairSpec
INVARIANTS TypeOK OfflineIsStale RunningIsStored ListedWasAlive
PROPERTIES ComesBackOnline
