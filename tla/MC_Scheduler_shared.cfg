\* Two jobs, a trigger, one change or deletion, one access that fails and one restart,
\* over two periods.
CONSTANTS
    Jobs = {1, 2}
    Schedules <- Anchored
    Triggers = {t1}
    MaxNow = 2
    MaxEdits = 1
    MaxFailures = 1
    MaxRestarts = 1
SPECIFICATION FairSpec
INVARIANT Inv
PROPERTIES OnceForEachDueTime DueIsHandled
CHECK_DEADLOCK FALSE
