CONSTANTS
  Node <- MCNode2
  Priority <- MCPriority2
  StartupTime <- MCStartupTime2
  HalfVotes = FALSE
  Timed = TRUE
  MaxCmd = 3
  MaxChan = 2
  Stoppable = {}
  InitiallyUp = {1, 2}
  Isolatable = {}
  MaxIsolations = 0
  Lifecheck = FALSE
SPECIFICATION FairSpec
CONSTRAINT ChannelBound
INVARIANT CoordinatorHasHighestPriority
PROPERTY EventuallyStable
