SPECIFICATION BoundedSpec
CONSTANTS
    r = r
    d = d
    f = f
    g = g
    n1 = n1
    n2 = n2
    mnt = mnt
    IdMod = 16
    LongMod = 64
    Nobody = 14
    Dirs = {r, d}
    Root = r
    MappedDirs = {d}
    Files = {f, g}
    Names = {n1, n2, mnt}
    Dot = Dot
    None = None
    Sides = {s1, s2, s3, s4}
    Threads = {t1}
    UidMap <- MCMap
    GidMap <- MCMap
    ReqUids = {0}
    ReqGids = {1}
    ReqModes <- OneMode
    InitEnt <- MCTree
    Preexisting <- OldObjects
    HostMode <- Open
    Garbage <- Junk
    Undef = Undef
    Torn = Torn
    MaxFaults = 1
PROPERTIES
    OkMeansDone
    MovesWithAttrs
