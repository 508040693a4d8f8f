SPECIFICATION FairSpec
CONSTANTS
    Callers = {c1, c2, c3}
    OpKeys = {"device-udf-set"}
    Undefined = Undefined
    ListedLimits <- MCListedLimits
    DefaultWriteLimit = 1
    ReadLimit = 2
    WriteAggregateLimit = 2
    Window = 2
    LastCall = 2
    Slack = 1
    Horizon = 12
INVARIANTS
    TypeOK
    WithinBudget
    CountedOnce
    NoOversleep
PROPERTIES
    SleeperAdmitted
    ImplementsBudget
