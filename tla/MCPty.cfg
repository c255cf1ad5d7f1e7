SPECIFICATION FairSpec
CONSTANTS
    BufSize = 2
    InCap = 1
    OutCap = 3
    TtyCap = 1
    Sizes = {1, 2}
    MaxTyped = 2
    MaxWritten = 3
    MaxSignals = 1
INVARIANTS
    TypeOK
    NothingLost
    SettingsRestored
PROPERTIES
    SizeFollows
    EndsWhenClosed
CHECK_DEADLOCK FALSE
