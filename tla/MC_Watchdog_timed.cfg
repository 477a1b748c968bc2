CONSTANTS
  Node <- MCNode
  Priority <- MCPriority
  StartupTime <- MCStartupTime
  HalfVotes = FALSE
  Timed = TRUE
  MaxCmd = 3
  MaxChan = 2
  Stoppable = {}
  InitiallyUp = {}
  Isolatable = {}
  MaxIsolations = 0
  Lifecheck = FALSE
SPECIFICATION Spec
CONSTRAINT ChannelBound
INVARIANT TypeOK
PROPERTY MasterIsNotPreempted
