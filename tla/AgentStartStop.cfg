\* One session, up to two starts of it (the second after a crash or a failed
\* attempt), two stop goroutines.  Sessions share nothing but d.mu.
CONSTANTS
    Sessions = {s1}
    Starts = {g1, g2}
    Stops = {k1, k2}
    None = None
    MaxCrashes = 1
    MaxShutdowns = 0
SPECIFICATION Spec
SYMMETRY Symmetry
INVARIANTS TypeOK ExclusiveStop  CompletedStopCleans
CHECK_DEADLOCK FALSE
