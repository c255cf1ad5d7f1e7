SPECIFICATION FairSpec
CONSTANTS
    Chars = {"a", "b", "/"}
    Numbers <- MCNumbers
    Junk = "?"
    Ops <- MCOps
    Contexts <- MCContexts
    Errnos = {13}
    Contents <- MCContents
    Listings <- MCListings
    Targets <- MCTargets
    Stats <- MCStats
    Cap = 2
    Garbled <- MCGarbled
    Statuses = {0, 3}
    Faults = {"client", "server"}
INVARIANTS
    TypeOK
    InSync
    StatusPassed
PROPERTIES
    ImplementsRpc
    EveryCallEnds
    ServerFollows
CHECK_DEADLOCK FALSE
