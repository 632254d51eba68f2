CONSTANTS
    MaxBoots = 3
    Faults = {"set", "get"}
SPECIFICATION FairSpec
INVARIANTS StoreOrder StoredWhole InTimeUsesInput TimedOutUsesStored LoadsPreviousOrNew Inv
PROPERTY LoadEnds
\* a device that runs, or cannot restart, takes no further step
CHECK_DEADLOCK FALSE
