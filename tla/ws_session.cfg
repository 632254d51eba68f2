CONSTANTS
    t1 = t1
    t2 = t2
    main = main
    s1 = s1
    Tasks <- TwoTasks
    Apps <- TwoApps
    Ctl = main
    NoThread = NoThread
    AutoReconnect = TRUE
    MaxConn = 2
    Calls <- CallsStop
    CloseMayTimeOut = TRUE
SPECIFICATION Spec
SYMMETRY TaskSymmetry
INVARIANTS MutualExclusion OneTask StoppedIsClosed ReadFresh OneCloseEach
PROPERTY ImplementsSession
