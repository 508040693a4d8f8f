SPECIFICATION FairSpec
CONSTANTS
    Policies <- MCPolicies
    RetryAfters = {0, 4, 5}
    MaxRetryAfter = 4
INVARIANTS
    TypeOK
    AttemptsWhole
    AttemptsBounded
    OnlyRetriesRetryable
    SleepBounded
    ResultIsLastAnswer
PROPERTIES
    RequestEnds
