\* An engine with batches of up to two calls and a child with single calls, a cache of
\* two entries, two files of which one has two paths, and one change of each file.
CONSTANTS
    e1 = e1  e2 = e2  f1 = f1  f2 = f2  p1 = p1  q1 = q1  p2 = p2
    Engines = {e1, e2}
    Files = {f1, f2}
    Paths = {p1, q1, p2}
    File <- File_v
    CachedCalls <- Calls_v
    MaxBatch <- MaxBatch_v
    MaxEntries = 2
    MaxVersion = 1
SPECIFICATION CacheSpec
INVARIANTS CacheInv 
