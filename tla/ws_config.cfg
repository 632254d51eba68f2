CONSTANTS
    NULL = NULL
    Dangling = Dangling
    Configs <- TheConfigs
    Uris <- TheUris
    MaxHeaders = 1
    MaxFailures = 1
SPECIFICATION Spec
INVARIANTS LosesLittle UsesNoFreed PanicsForLock 
\* a panic ends it
CHECK_DEADLOCK FALSE
