\* Failover or failback events ask the children to restart.
CONSTANTS
    Children <- MCChildren2
    Reserved = 1
    MaxConnections = 0
    LifeTime = TRUE
    MaxCounter = 3
    RestartRequests = TRUE
    Shutdown = FALSE
SPECIFICATION Spec
INVARIANT CounterNeverUnder
