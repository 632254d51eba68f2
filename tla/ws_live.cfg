CONSTANTS
    t1 = t1
    t2 = t2
    main = main
    s1 = s1
    Tasks <- OneTaskSet
    Apps <- TwoApps
    Ctl = main
    NoThread = NoThread
    AutoReconnect = TRUE
    MaxConn = 2
    Calls <- CallsOne
    CloseMayTimeOut = TRUE
SPECIFICATION FairSpec
PROPERTIES StopReturns CloseReturns LossIsRetried StartConnects ServerCloseEnds DestroyFrees
\* a destroyed client is never used again
CHECK_DEADLOCK FALSE
