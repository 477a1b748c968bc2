CONSTANTS
    HelperSecs = 5
    MaxCalls = 3
    EscForkMayFail = FALSE
    MaxFaults = 0
SPECIFICATION Spec
CHECK_DEADLOCK FALSE
INVARIANT VipMatchesEscalation
