SPECIFICATION FairSpec
CONSTANTS
    Requests = {r1, r2}
    RefreshPct = 50
    Lifetimes = {2}
    Horizon = 2
INVARIANTS
    TypeOK
    SingleFlight
    CacheNewest
    RetryGetsNewToken
PROPERTIES
    NothingHangs
    CachedTokenHasMargin
