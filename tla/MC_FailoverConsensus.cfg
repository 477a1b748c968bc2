CONSTANTS
  Node = {n1, n2, n3}
  NoNode = NoNode
  Kinds = {"NODE_DOWN", "PROMOTE"}
  NodeLists <- MCNodeLists
  HalfVotes = FALSE
  FailoverWhenQuorumExists = TRUE
  RequireConsensus = TRUE
  AllowMultiple = FALSE
  MaxRequests = 2
  MaxTerms = 2
SPECIFICATION Spec
SYMMETRY NodeSymmetry
CONSTRAINT MsgBound
INVARIANT TypeOK
INVARIANT ConsensusSafety
PROPERTY VotingSpec
CHECK_DEADLOCK FALSE
