SPECIFICATION Spec
CONSTANTS
    Requests = {r1, r2}
    RefreshPct = 50
    Lifetimes = {2}
    Horizon = 2
PROPERTIES
    DiscardsOnlyRefused
