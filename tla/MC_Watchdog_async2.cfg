CONSTANTS
  Node <- MCNode2
  Priority <- MCPriority2
  StartupTime <- MCStartupTime2
  HalfVotes = FALSE
  Timed = FALSE
  MaxCmd = 3
  MaxChan = 1
  Stoppable = {2}
  InitiallyUp = {1, 2}
  Isolatable = {}
  MaxIsolations = 0
  Lifecheck = TRUE
SPECIFICATION Spec
CONSTRAINT ChannelBound
INVARIANT AtMostOneEscalated
INVARIANT StandbyHasMaster
