CONSTANTS
    Children <- MCChildren1
    Reserved = 0
    MaxConnections = 2
    LifeTime = TRUE
    RestartRequests = TRUE
    Shutdown = TRUE
    MaxCounter = 3
    RecoveryTimeout = TRUE
    MaxRecoveries = 2
    r = r
    q = q
    R <- r
    Others <- MCOthers
    MaxIpc = 2
    MaxFaults = 2
SPECIFICATION IpcSpec
INVARIANT AnsweredOnce
INVARIANT IpcResultOnce
INVARIANT IpcAwaitsReply
PROPERTY RecoveryAnswered
\* The model stops once both IPC commands are issued and the children have
\* exited: the bounds, not the code, end it.
CHECK_DEADLOCK FALSE
