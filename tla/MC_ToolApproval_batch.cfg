\* One session asks twice in a batch that meets every verdict; two requests
\* may answer, in any order, and nobody has to.
CONSTANTS
    s1 = s1  s2 = s2  a1 = a1  a2 = a2  b1 = b1  b2 = b2
    shellLs = shellLs  shellRm = shellRm
    kernelFile = kernelFile  tierFile = tierFile
    Sessions = {s1}
    Calls = {a1, a2, b2}
    Scopes = {shellLs, shellRm, tierFile}
    Requests = {r1, r2}
    Batch <- MixedBatch
    ScopeOf <- MixedScope
    InvariantDenied = {}
    PathTier <- AllTiers
    AskRequired = {shellLs, shellRm}
    Interruptible = {s1}
    PromptMode = TRUE
    PromptTtl = 1
    CacheTtl = 1
SPECIFICATION FairSpec
INVARIANT DecisionsAreUsedUp
PROPERTIES ImplementsAuthority TurnsAndRequestsEnd
