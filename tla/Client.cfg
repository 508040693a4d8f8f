SPECIFICATION Spec
CONSTANTS
    c1 = c1
    c2 = c2
    Calls = {c1, c2}
    Mixes <- MCMixes
    ReadLimit = 3
    AggregateLimit = 2
    WriteLimit = 1
    Window = 2
    MaxAttempts = 2
    TokenLife = 1
    RefreshPct = 50
    MaxPages = 2
    Horizon = 2
INVARIANTS
    TypeOK
    EffectTold
    SendsBounded
    RefusedOnlyAfterWait
    DocumentedKept
