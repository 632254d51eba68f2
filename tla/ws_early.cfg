CONSTANTS
    t1 = t1
    t2 = t2
    main = main
    s1 = s1
    Tasks <- TwoTasks
    Apps <- OneApp
    Ctl = main
    NoThread = NoThread
    AutoReconnect = FALSE
    MaxConn = 1
    Calls <- CallsAll
    CloseMayTimeOut = TRUE
SPECIFICATION Spec
SYMMETRY TaskSymmetry
INVARIANTS FreedAfterLoop Inv
\* a destroyed client is never used again, and stop() may wait for ever
CHECK_DEADLOCK FALSE
