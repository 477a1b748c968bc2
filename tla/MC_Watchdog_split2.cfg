CONSTANTS
  Node <- MCNode2
  Priority <- MCPriority2
  StartupTime <- MCStartupTime2
  HalfVotes = FALSE
  Timed = TRUE
  MaxCmd = 4
  MaxChan = 2
  Stoppable = {}
  InitiallyUp = {1, 2}
  Isolatable = {1, 2}
  MaxIsolations = 1
  Lifecheck = TRUE
SPECIFICATION Spec
CONSTRAINT ChannelBound
INVARIANT AtMostOneEscalated
INVARIANT StandbyHasMaster
