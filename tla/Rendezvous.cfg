\* Two invocations of peerctl and one start of the session.
CONSTANTS
    Invocations = {c1, c2}
    Starts = {g1}
    None = None
    Gathers = {{}, {"host", "srflx"}}
    MaxAttempts = 2
    MaxCrashes = 1
SPECIFICATION FairSpec
INVARIANTS ServesRenter  ExchangesMeet 
PROPERTIES NegotiationEnds
CHECK_DEADLOCK FALSE
