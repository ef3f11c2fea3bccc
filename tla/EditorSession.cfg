SPECIFICATION FairSpec
CONSTANTS
    MaxEdits = 2
    MaxExternal = 1
    MaxManual = 1
    MaxRetries = 1
    LateProjects = TRUE
  
PROPERTIES SerialWrites  SavesSettle
CHECK_DEADLOCK FALSE
