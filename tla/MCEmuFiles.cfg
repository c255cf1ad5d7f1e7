SPECIFICATION Spec
CONSTANTS
    r = r
    d = d
    f = f
    g = g
    n1 = n1
    n2 = n2
    t1 = t1
    t2 = t2
    IdMod = 16
    LongMod = 64
    Nobody = 14
    Dirs = {r}
    Root = r
    Files = {f, g}
    Names = {n1, n2}
    Dot = Dot
    None = None
    Sides = {s1, s2, s3}
    Threads = {t1}
    UidMap <- MCMap
    GidMap <- MCMap
    ReqUids = {5, 15}
    ReqGids = {0, 1}
    ReqModes <- TwoModes
    InitEnt <- EmptyTree
    Preexisting <- NewObjects
    HostMode <- Open
    Garbage <- Junk
    Undef = Undef
    Torn = Torn
    MaxFaults = 0
INVARIANTS
    SidecarsFollowFiles
PROPERTIES
    AttrsOnlySet
