\* Two sessions record while two requests pull or approve; all of them end.
CONSTANTS
    s1 = s1  s2 = s2
    a1 = a1  a2 = a2  b1 = b1
    Sessions = {s1, s2}
    Operators = {o1, o2}
    Calls = {a1, a2, b1}
    Categories = {"delete"}
    Batch <- TwoAndOne
    CategoryOf <- CategoryOf_v
    ActionOf <- ActionOf_v
    Refused = {a2}
    PointMatch = {a2}
    MinCount <- MinCount_v
SPECIFICATION FairSpec
INVARIANTS Inv CrossingIsSeen ListedIsHandled
PROPERTIES EverythingEnds
CHECK_DEADLOCK FALSE
