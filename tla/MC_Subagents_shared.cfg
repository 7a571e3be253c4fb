\* A one-shot and a session subagent compete for a slot; their parents message
\* and cancel them, two at a time, and a cancel may be dropped while it waits.
CONSTANTS
    run1 = run1  chat1 = chat1
    Agents = {run1, chat1}
    Sends = 2
    Cancels = 2
    MaxCalls = 3
    Mode <- Mode_v
    MaxConcurrent = 1
    MaxTokens = 2
    TurnTokens = {1}
    Capacity = 1
    Timeout = 1
    Grace = 1
    CallersGoAway = TRUE
SPECIFICATION FairSpec
INVARIANTS Inv WorkWithinLimit EndIsRecorded
PROPERTIES TerminalIsFinal EverythingEnds
CHECK_DEADLOCK FALSE
