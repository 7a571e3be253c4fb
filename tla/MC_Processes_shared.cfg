\* Two threads spawn a process each over a limit of one, so that both may run at a time;
\* each leaves a helper behind; one call kills, entries expire, and the registry may be
\* dropped.
CONSTANTS
    p1 = p1  p2 = p2  t1 = t1  t2 = t2  k1 = k1  cleanup = cleanup  drop = drop
    Procs = {p1, p2}
    Threads = {t1, t2}
    Killers = {k1}
    Cleanup = cleanup
    Drop = drop
    Helper <- Helper_v
    MaxConcurrent = 1
SPECIFICATION FairSpec
INVARIANTS Inv KillStops NothingOutlivesTheRegistry
PROPERTY EverythingEnds
CHECK_DEADLOCK FALSE
