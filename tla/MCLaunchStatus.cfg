SPECIFICATION Spec
CONSTANTS
    WithFuse = {TRUE}
    UseSub = {FALSE}
    Faults = {}
    Codes = {0, 7}
    MaxTerm = 0
INVARIANTS
    ExitStatusReturned
CHECK_DEADLOCK FALSE
