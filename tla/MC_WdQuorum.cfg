CONSTANT MaxRemote = 16
SPECIFICATION Spec
INVARIANT QuorumIsMajority
INVARIANT VotesAgreeWithQuorum
