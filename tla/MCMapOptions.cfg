SPECIFICATION CredsSpec
CONSTANTS
    IdMod = 16
    LongMod = 32
    Nobody = 14
    OptMappings <- MCOptMappings
    OptIds = {0, 5, 15}
    euid = 3
    egid = 3
    Supplementary = {7}
    SubUid <- MCSubUid
    SubGid <- MCSubGid
    ttygid = 5
    nMappings = 6
    MaxOpts = 4
INVARIANTS
    TypeOK
    IdsSurvive
    TtyGidMapped
    RunsAsAsked
    DefaultsStart
    OwnFilesAreOwn
CHECK_DEADLOCK FALSE
