\* Two sessions ask for one scope; two requests answer, in any order.
CONSTANTS
    s1 = s1  s2 = s2  a1 = a1  a2 = a2  b1 = b1  b2 = b2
    shellLs = shellLs  shellRm = shellRm
    kernelFile = kernelFile  tierFile = tierFile
    Sessions = {s1, s2}
    Calls = {a1, b1, b2}
    Scopes = {shellLs, kernelFile}
    Requests = {r1, r2}
    Batch <- SharedBatch
    ScopeOf <- SharedScope
    InvariantDenied = {kernelFile}
    PathTier <- AllTiers
    AskRequired = {shellLs, kernelFile}
    Interruptible = {s2}
    PromptMode = TRUE
    PromptTtl = 1
    CacheTtl = 1
SYMMETRY RequestSymmetry
SPECIFICATION Spec
INVARIANTS Inv WaiterIsReachable RepliesAreTrue
PROPERTIES AnsweredOnce
