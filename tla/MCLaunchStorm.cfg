SPECIFICATION DaemonSpec
CONSTANTS
    WithFuse = {FALSE}
    UseSub = {FALSE}
    Faults = {}
    Codes = {0, 7}
    MaxTerm = 1
PROPERTIES
    TermEndsMain
CHECK_DEADLOCK FALSE
