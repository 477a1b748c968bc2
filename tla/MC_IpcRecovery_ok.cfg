\* The premature OK of an online-recovery START: one socket failure.
CONSTANTS
    Children <- MCChildren1
    Reserved = 0
    MaxConnections = 2
    LifeTime = TRUE
    RestartRequests = TRUE
    Shutdown = TRUE
    MaxCounter = 3
    RecoveryTimeout = TRUE
    MaxRecoveries = 2
    r = r
    q = q
    R <- r
    Others <- MCOthers
    MaxIpc = 2
    MaxFaults = 1
SPECIFICATION IpcSpec
PROPERTY RecoveryOkReachedActiveNodes
\* The model stops once both IPC commands are issued and the children have
\* exited: the bounds, not the code, end it.
CHECK_DEADLOCK FALSE
