SPECIFICATION DaemonSpec
CONSTANTS
    WithFuse = {TRUE}
    UseSub = {TRUE, FALSE}
    Faults = {"unshare", "map", "helper", "mount", "init", "fuse"}
    Codes = {0, 7}
    MaxTerm = 2
INVARIANTS
    NonzeroIsReal
PROPERTIES
    TermEndsContainer
CHECK_DEADLOCK FALSE
