SPECIFICATION FairSpec
CONSTANTS
    WithFuse = {TRUE, FALSE}
    UseSub = {TRUE, FALSE}
    Faults = {"unshare", "map", "mount", "init"}
    Codes = {0, 7}
    MaxTerm = 0
INVARIANTS
    TypeOK
    MapsFirst
    ChrootBeforePreclean
    TempdirRemoved
PROPERTIES
    Terminates
CHECK_DEADLOCK FALSE
