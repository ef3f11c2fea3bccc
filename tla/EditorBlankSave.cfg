SPECIFICATION FairSpec
CONSTANTS
    MaxEdits = 1
    MaxExternal = 0
    MaxManual = 0
    MaxRetries = 1
    LateProjects = FALSE
INVARIANT OnlyLoadedFormsWritten
CHECK_DEADLOCK FALSE
