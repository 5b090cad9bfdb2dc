\* One start, two stop goroutines, one of which may be cleanup's, and a shutdown.
CONSTANTS
    Sessions = {s1}
    Starts = {g1}
    Stops = {k1, k2}
    None = None
    MaxCrashes = 0
    MaxShutdowns = 1
SPECIFICATION FairSpec
PROPERTIES TerminatedUntracked 
CHECK_DEADLOCK FALSE
