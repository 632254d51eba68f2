CONSTANTS
    UserConfigs <- Configs
    Intervals = {0}
    DefaultPing = 1
    DefaultPong = 8
    DefaultWait = 2
    MaxPing = 2
    Poll = 1
    Busy = 1
    Answer = 1
    Backlog = 1
    MaxTime = 12
SPECIFICATION Spec
INVARIANTS Inv SilenceIsNoticed LiveIsKept WaitIsBounded
PROPERTY AttemptsAreApart
\* the clock stops
CHECK_DEADLOCK FALSE
