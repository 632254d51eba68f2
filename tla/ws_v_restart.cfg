CONSTANTS
    t1 = t1
    t2 = t2
    main = main
    s1 = s1
    Tasks <- TwoTasks
    Apps <- OneApp
    Ctl = main
    NoThread = NoThread
    AutoReconnect = TRUE
    MaxConn = 1
    Calls <- CallsNoClose
    CloseMayTimeOut = TRUE
SPECIFICATION FairSpec
PROPERTY StartConnects
\* stop() may wait for ever
CHECK_DEADLOCK FALSE
