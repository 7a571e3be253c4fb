\* Two requests for one session, one of them streamed and the other dropped if its caller
\* goes away, while one request stops the run and one edits, deletes or reloads.
CONSTANTS
    k1 = k1  k2 = k2  r1 = r1  r2 = r2  s1 = s1  e1 = e1
    None = None
    Keys = {k1}
    Requests = {r1, r2}
    Of <- Of_one
    Streamed = {r2}
    Stops = {s1}
    Target <- Target_v
    Edits = {e1}
SPECIFICATION FairSpec
INVARIANTS Inv ReasonIsTrue OneTurnAtATime SavedAlone
PROPERTY EverythingEnds
CHECK_DEADLOCK FALSE
