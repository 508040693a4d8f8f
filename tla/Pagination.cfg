SPECIFICATION Spec
CONSTANTS
    Urls = {"/devices", "/devices?page=2", "/devices?page=3", "/devices?page=4"}
    StartPath = "/devices"
    RowLists <- MCRowLists
    MaxPages = 3
INVARIANTS
    TypeOK
    PagesBounded
    FollowsChain
    ReturnsWhole
    ThrowsForCause
