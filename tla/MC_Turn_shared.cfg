\* Two turns of up to three rounds with two calls each, and two commands.
CONSTANTS
    WriteA = w1
    WriteB = w2
    Read = r
    Calls = {w1, w2, r}
    Kind <- Kinds
    MaxIterations = 3
    MaxLlmCalls = 3
    MaxToolInvocations = 5
    MaxConsecutiveFailures = 1
    MaxCycleFailures = 2
    MaxNoProgress = 2
    Synthesize = TRUE
    MaxContinuations = 1
    MaxBatch = 2
    MaxTurns = 2
    MaxCommands = 2
SPECIFICATION FairTurns
INVARIANTS TurnInv SettledOnce
PROPERTIES StopIsObeyed TurnsEnd
CHECK_DEADLOCK FALSE
