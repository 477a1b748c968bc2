----------------------------- MODULE WdQuorum -----------------------------
(***************************************************************************)
(* The quorum arithmetic of the watchdog (src/watchdog/watchdog.c):        *)
(*   get_mimimum_remote_nodes_required_for_quorum, update_quorum_status    *)
(*   and get_minimum_votes_to_resolve_consensus.                           *)
(* The operators are used by the Watchdog and FailoverConsensus modules.   *)
(* MC_WdQuorum checks them against a majority reference.                  *)
(***************************************************************************)
EXTENDS Integers

\* get_mimimum_remote_nodes_required_for_quorum: remote nodes needed, the
\* local node being counted as a vote already.
MinRemoteForQuorum(remote) ==
    IF remote % 2 = 0 THEN remote \div 2 ELSE (remote - 1) \div 2

QuorumStatusIgnoringHalf(standbys, remote, halfVotes) ==
    IF standbys >= MinRemoteForQuorum(remote) THEN 1 ELSE -1

\* update_quorum_status: 1 quorum, 0 exactly half (allowed only with
\* enable_consensus_with_half_votes), -1 no quorum.
QuorumStatus(standbys, remote, halfVotes) ==
    IF standbys > MinRemoteForQuorum(remote) THEN 1
    ELSE IF standbys = MinRemoteForQuorum(remote)
         THEN IF remote % 2 # 0 THEN (IF halfVotes THEN 0 ELSE -1) ELSE 1
         ELSE -1

MinVotesNoTieBreak(remote, halfVotes) == MinRemoteForQuorum(remote) + 1

\* get_minimum_votes_to_resolve_consensus
MinVotes(remote, halfVotes) ==
    MinRemoteForQuorum(remote) + 1
      + (IF remote % 2 # 0 /\ ~halfVotes THEN 1 ELSE 0)

=============================================================================
