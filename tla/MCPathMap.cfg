SPECIFICATION Spec
CONSTANTS
    Chars <- MCChars
    Bindings <- MCBindings
    Roots <- MCRoots
    FusePaths <- MCFusePaths
    MaxBindings = 2
    Dirs <- MCDirs
    Files <- MCFiles
INVARIANTS
    TypeOK
    RightRules
    RightObject
CHECK_DEADLOCK FALSE
