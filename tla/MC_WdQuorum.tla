---------------------------- MODULE MC_WdQuorum ----------------------------
(***************************************************************************)
(* Moves the standby count of a coordinator up and down                    *)
(* (standby_node_join_cluster / standby_node_left_cluster) so that the     *)
(* quorum formulas of WdQuorum are checked against a majority reference    *)
(* for every cluster size up to MaxRemote remote nodes.                    *)
(***************************************************************************)
EXTENDS Integers, WdQuorum

CONSTANT MaxRemote   \* largest number of remote watchdog nodes checked

VARIABLES remote,    \* g_cluster.remoteNodeCount (fixed by the config)
          standbys,  \* clusterMasterInfo.standby_nodes_count
          halfVotes  \* pool_config->enable_consensus_with_half_votes

vars == <<remote, standbys, halfVotes>>

Init == /\ remote \in 1..MaxRemote
        /\ standbys = 0
        /\ halfVotes \in BOOLEAN

\* standby_node_join_cluster: a standby joins the coordinator
StandbyJoin == /\ standbys < remote
               /\ standbys' = standbys + 1
               /\ UNCHANGED <<remote, halfVotes>>

\* standby_node_left_cluster: a standby leaves the coordinator
StandbyLeft == /\ standbys > 0
               /\ standbys' = standbys - 1
               /\ UNCHANGED <<remote, halfVotes>>

Next == StandbyJoin \/ StandbyLeft

Spec == Init /\ [][Next]_vars

\* Reference: with n = remote + 1 nodes and a alive (the coordinator and its
\* standbys), there is quorum when a is a strict majority, and "on the edge"
\* when a is exactly half and half votes are enabled.
RefQuorum(alive, n, half) ==
    IF 2 * alive > n THEN 1 ELSE IF 2 * alive = n /\ half THEN 0 ELSE -1

\* Reference: the fewest votes v of n nodes that decide: a strict majority,
\* or exactly half when half votes are enabled.
RefMinVotes(n, half) ==
    CHOOSE v \in 1..n : /\ (2 * v > n \/ (2 * v = n /\ half))
                        /\ \A w \in 1..(v - 1) : ~(2 * w > n \/ (2 * w = n /\ half))

\* The quorum status computed by update_quorum_status is the majority rule
\* over the coordinator and its standbys, for every cluster size.
QuorumIsMajority ==
    QuorumStatus(standbys, remote, halfVotes) = RefQuorum(standbys + 1, remote + 1, halfVotes)

\* The failover vote threshold of get_minimum_votes_to_resolve_consensus is
\* the majority rule, and a coordinator holds quorum exactly when itself
\* and its standbys could cast that many votes: compute_failover_consensus
\* can only succeed on the side of a partition that has quorum.
VotesAgreeWithQuorum ==
    /\ MinVotes(remote, halfVotes) = RefMinVotes(remote + 1, halfVotes)
    /\ (QuorumStatus(standbys, remote, halfVotes) >= 0
          <=> standbys + 1 >= MinVotes(remote, halfVotes))
=============================================================================
