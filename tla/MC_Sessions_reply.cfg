\* Two requests for different sessions, neither of them streamed.
CONSTANTS
    k1 = k1  k2 = k2  r1 = r1  r2 = r2  s1 = s1  e1 = e1
    None = None
    Keys = {k1, k2}
    Requests = {r1, r2}
    Of <- Of_two
    Streamed = {}
    Stops = {}
    Target <- Target_v
    Edits = {}
SPECIFICATION Spec
INVARIANT OwnResponse
CHECK_DEADLOCK FALSE
