SPECIFICATION FairSpec
CONSTANTS
    MaxEdits = 2
    MaxExternal = 0
    MaxManual = 0
    MaxRetries = 1
    LateProjects = FALSE
PROPERTY EditsDuringSaveFlagged
CHECK_DEADLOCK FALSE
