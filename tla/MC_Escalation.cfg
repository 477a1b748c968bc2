CONSTANTS
    HelperSecs = 4
    MaxCalls = 3
    EscForkMayFail = TRUE
    MaxFaults = 2
SPECIFICATION Spec
INVARIANT VipMatchesEscalation
CHECK_DEADLOCK FALSE
