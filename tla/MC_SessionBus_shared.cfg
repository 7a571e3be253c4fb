\* Three messages of two milliseconds to two sessions with two applications of the first, whose channels hold
\* two, one access of the store that fails and one restart.
CONSTANTS
    a1 = a1  a2 = a2
    Messages = {1, 2, 3}
    CreatedAt <- CreatedAt_v
    Id <- Id_v
    Keys = {"k", "k:x"}
    To <- To_v
    Apps = {a1, a2}
    Key <- Key_v
    Within <- Within_v
    Capacity = 2
    MaxFailures = 1
    MaxRestarts = 1
SYMMETRY Symmetry
SPECIFICATION Spec
INVARIANTS Inv NothingIsLost ArrivesOnce OvertakesOnlyTheStore
CHECK_DEADLOCK FALSE
