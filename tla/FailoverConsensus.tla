------------------------- MODULE FailoverConsensus -------------------------
(***************************************************************************)
(* The failover consensus of the watchdog (src/watchdog/watchdog.c): the   *)
(* coordinator's failover objects (g_cluster.wdCurrentFailovers), the vote *)
(* counting of compute_failover_consensus and add_failover, their expiry   *)
(* in service_expired_failovers, and the way a failover request reaches   *)
(* the coordinator: from its own pgpool-II over IPC, or from a standby's   *)
(* pgpool-II, forwarded by that standby (process_IPC_failover_command).    *)
(*                                                                         *)
(* Which node is coordinator and which nodes are its standbys is what the  *)
(* Watchdog module models; here both change by environment steps (Elect,   *)
(* Depose, StandbyJoin, StandbyLeft), and leaving the coordinator state    *)
(* runs the part of set_state that concerns failovers.                     *)
(*                                                                         *)
(* NODE_UP_REQUIRE_CONSENSUS, NODE_DOWN_REQUIRE_CONSENSUS and              *)
(* NODE_PROMOTE_REQUIRE_CONSENSUS are defined (watchdog.c:65-67), so every *)
(* request kind goes through the consensus rules.                          *)
(***************************************************************************)
EXTENDS Integers, FiniteSets, Sequences, Bags, Functions, WdQuorum

CONSTANTS
    Node,                      \* watchdog node ids
    Kinds,                     \* POOL_REQUEST_KIND values requested
    NodeLists,                 \* backend node id lists a request may carry
    HalfVotes,                 \* enable_consensus_with_half_votes
    FailoverWhenQuorumExists,  \* failover_when_quorum_exists
    RequireConsensus,          \* failover_require_consensus
    AllowMultiple,             \* allow_multiple_failover_requests_from_node
    MaxRequests,               \* bound on the failover requests submitted
    MaxTerms,                  \* bound on the coordinator elections
    NoNode                     \* no coordinator

ASSUME NoNode \notin Node /\ "NODE_DOWN" \in Kinds

VARIABLES
    coord,      \* the node in state COORDINATOR that is its own master
    standby,    \* the coordinator's standby list
    failovers,  \* failovers[n]: n's wdCurrentFailovers
    msgs,       \* bag of WD_IPC_FAILOVER_COMMAND packets forwarded to a master
    term,       \* number of coordinator elections so far
    requests,   \* number of failover requests submitted so far
    votes,      \* history: the votes counted by add_failover
    decided     \* history: the failovers allowed to proceed

vars == <<coord, standby, failovers, msgs, term, requests, votes, decided>>

RemoteCount == Cardinality(Node) - 1

\* update_quorum_status, as called by compute_failover_consensus
Quorum == QuorumStatus(Cardinality(standby), RemoteCount, HalfVotes)

\* get_minimum_votes_to_resolve_consensus
MinimumVotes == MinVotes(RemoteCount, HalfVotes)

SameFailoverCountOnly(f, kind, list) == f.kind = kind /\ Len(f.list) = Len(list)

\* get_failover_object's test: same kind and node count, and every node of
\* the stored list is in the requested list (does_int_array_contains_value)
SameFailover(f, kind, list) ==
    /\ f.kind = kind
    /\ Len(f.list) = Len(list)
    /\ \A i \in DOMAIN f.list : f.list[i] \in Range(list)

\* add_failover, first half: the object found by get_failover_object, or a
\* new one with request_count 0 and the flags of this request
FailoverObject(fos, kind, list, conf) ==
    IF \E f \in fos : SameFailover(f, kind, list)
    THEN CHOOSE f \in fos : SameFailover(f, kind, list)
    ELSE [kind |-> kind, list |-> list, conf |-> conf, count |-> 0, reqs |-> {}]

AddedObjectNoDuplicateCheck(f, src) ==
    [f EXCEPT !.count = @ + 1, !.reqs = @ \cup {src}]

\* add_failover, second half: a request from a node already in
\* requestingNodes is counted only with allow_multiple_failover_requests_from_node
AddedObject(f, src) ==
    IF src \in f.reqs
    THEN IF AllowMultiple THEN [f EXCEPT !.count = @ + 1] ELSE f
    ELSE [f EXCEPT !.count = @ + 1, !.reqs = @ \cup {src}]

\* a failover that was allowed to proceed: FAILOVER_RES_PROCEED for a local
\* request, degenerate_backend_set / send_failback_request / promote_backend
\* and FAILOVER_RES_WILL_BE_DONE for a remote one; voters is {} when no
\* votes were needed
Proceed(src, kind, list, conf, voters) ==
    decided' = decided \cup {[src |-> src, kind |-> kind, nodes |-> Range(list),
                              conf |-> conf, voters |-> voters, term |-> term]}

CountVoteKeepObject(c, src, f, g, list) ==
    /\ votes' = votes \cup {[voter |-> src, kind |-> f.kind, nodes |-> Range(list), term |-> term]}
    /\ failovers' = [failovers EXCEPT ![c] = (@ \ {f}) \cup {g}]
    /\ IF g.count < MinimumVotes THEN UNCHANGED decided
       ELSE Proceed(src, g.kind, list, g.conf, g.reqs)

\* the request is counted into object f, which becomes g; with enough votes
\* the object is removed and the failover proceeds with the first request's
\* flags (reqFlags), otherwise it stays (BUILDING_CONSENSUS, or
\* CONSENSUS_MAY_FAIL for an ignored duplicate)
CountVote(c, src, f, g, list) ==
    /\ votes' = votes \cup {[voter |-> src, kind |-> f.kind, nodes |-> Range(list), term |-> term]}
    /\ IF g.count < MinimumVotes
       THEN /\ failovers' = [failovers EXCEPT ![c] = (@ \ {f}) \cup {g}]
            /\ UNCHANGED decided
       ELSE /\ failovers' = [failovers EXCEPT ![c] = @ \ {f}]
            /\ Proceed(src, g.kind, list, g.conf, g.reqs)

\* process_failover_command_on_coordinator with compute_failover_consensus:
\* no quorum needed, or a REQ_DETAIL_CONFIRMED request, proceeds at once;
\* without quorum the request is rejected (FAILOVER_RES_NO_QUORUM);
\* without failover_require_consensus it proceeds; otherwise it is a vote
ProcessFailoverCommand(c, src, kind, list, conf) ==
    CASE ~FailoverWhenQuorumExists \/ conf ->
              Proceed(src, kind, list, conf, {}) /\ UNCHANGED <<failovers, votes>>
      [] Quorum < 0 ->
              UNCHANGED <<failovers, votes, decided>>
      [] ~RequireConsensus ->
              Proceed(src, kind, list, conf, {}) /\ UNCHANGED <<failovers, votes>>
      [] OTHER ->
              CountVote(c, src, FailoverObject(failovers[c], kind, list, conf),
                        AddedObject(FailoverObject(failovers[c], kind, list, conf), src),
                        list)

ClearAllFailoversKept(fos) == fos

\* clear_all_failovers
ClearAllFailovers(fos) == {}

LeaveCoordinatorKeepStandby(c, fos) ==
    /\ coord' = NoNode
    /\ UNCHANGED standby
    /\ failovers' = [failovers EXCEPT ![c] = ClearAllFailovers(fos)]

\* set_state from WD_COORDINATOR to another state: clear_standby_nodes_list
\* and clear_all_failovers (the de-escalation is the Watchdog module's)
LeaveCoordinator(c, fos) ==
    /\ coord' = NoNode
    /\ standby' = {}
    /\ failovers' = [failovers EXCEPT ![c] = ClearAllFailovers(fos)]

-----------------------------------------------------------------------------
Init ==
    /\ coord = NoNode
    /\ standby = {}
    /\ failovers = [n \in Node |-> {}]
    /\ msgs = EmptyBag
    /\ term = 0
    /\ requests = 0
    /\ votes = {}
    /\ decided = {}

\* process_IPC_failover_command: the pgpool-II of node n asks for a failover.
\* The true master decides it; a standby forwards the packet to its master
\* (send_command_packet_to_remote_nodes) and waits for the reply; any other
\* node answers IPC_CMD_ERROR, which changes nothing.
Submit(n, kind, list, conf) ==
    /\ requests < MaxRequests
    /\ requests' = requests + 1
    /\ \/ /\ n = coord
          /\ ProcessFailoverCommand(n, n, kind, list, conf)
          /\ UNCHANGED <<coord, standby, msgs, term>>
       \/ /\ n \in standby
          /\ msgs' = msgs (+) SetToBag({[from |-> n, to |-> coord, kind |-> kind,
                                         list |-> list, conf |-> conf]})
          /\ UNCHANGED <<coord, standby, failovers, term, votes, decided>>

\* process_remote_failover_command_on_coordinator: a forwarded request is
\* read by the node it was sent to; a node that is no longer coordinator
\* replies WD_ERROR_MESSAGE
Deliver(m) ==
    /\ BagIn(m, msgs)
    /\ msgs' = msgs (-) SetToBag({m})
    /\ IF m.to = coord
       THEN ProcessFailoverCommand(m.to, m.from, m.kind, m.list, m.conf)
       ELSE UNCHANGED <<failovers, votes, decided>>
    /\ UNCHANGED <<coord, standby, term, requests>>

\* service_expired_failovers: an object older than
\* FAILOVER_COMMAND_FINISH_TIMEOUT is removed.  If it is a NODE_DOWN request
\* the coordinator itself voted for, and its pgpool-II holds the requested
\* primary in quarantine with no primary (shared memory, a choice here), the
\* coordinator lowers its wd_priority, sends IAM_RESIGNING_FROM_MASTER and
\* goes to JOINING.  No other event here is timed, so an object may expire
\* at any moment after it was created.
Expire(f) ==
    /\ coord # NoNode
    /\ f \in failovers[coord]
    /\ \/ /\ failovers' = [failovers EXCEPT ![coord] = @ \ {f}]
          /\ UNCHANGED <<coord, standby>>
       \/ /\ f.kind = "NODE_DOWN" /\ coord \in f.reqs
          /\ LeaveCoordinator(coord, failovers[coord] \ {f})
    /\ UNCHANGED <<msgs, term, requests, votes, decided>>

\* Environment: the election of the Watchdog module makes n coordinator
Elect(n) ==
    /\ coord = NoNode /\ term < MaxTerms
    /\ coord' = n
    /\ term' = term + 1
    /\ UNCHANGED <<standby, failovers, msgs, requests, votes, decided>>

\* Environment: the coordinator leaves the state (split brain, lost quorum
\* resignation, shutdown of its network), through set_state
Depose ==
    /\ coord # NoNode
    /\ LeaveCoordinator(coord, failovers[coord])
    /\ UNCHANGED <<msgs, term, requests, votes, decided>>

\* standby_node_join_cluster / standby_node_left_cluster at the coordinator
StandbyJoin(n) ==
    /\ coord # NoNode /\ n # coord /\ n \notin standby
    /\ standby' = standby \cup {n}
    /\ UNCHANGED <<coord, failovers, msgs, term, requests, votes, decided>>

StandbyLeft(n) ==
    /\ n \in standby
    /\ standby' = standby \ {n}
    /\ UNCHANGED <<coord, failovers, msgs, term, requests, votes, decided>>

Next ==
    \/ \E n \in Node, kind \in Kinds, list \in NodeLists, conf \in BOOLEAN :
          Submit(n, kind, list, conf)
    \/ \E m \in BagToSet(msgs) : Deliver(m)
    \/ \E n \in Node : \E f \in failovers[n] : n = coord /\ Expire(f)
    \/ \E n \in Node : Elect(n) \/ StandbyJoin(n) \/ StandbyLeft(n)
    \/ Depose

Spec == Init /\ [][Next]_vars

-----------------------------------------------------------------------------
FailoverRec ==
    [kind : Kinds, list : NodeLists, conf : BOOLEAN, count : Nat, reqs : SUBSET Node]

TypeOK ==
    /\ coord \in Node \cup {NoNode}
    /\ standby \subseteq Node \ {coord}
    /\ failovers \in [Node -> SUBSET FailoverRec]
    /\ IsABag(msgs)
    /\ term \in 0..MaxTerms /\ requests \in 0..MaxRequests

\* Consensus safety (spec: "no FailoverRequest ever proceeds with fewer than
\* min_votes requestors"; "a single requestor increments request_count at
\* most once per proposal"): every failover that compute_failover_consensus
\* let proceed on votes had at least get_minimum_votes_to_resolve_consensus
\* distinct nodes that asked the same coordinator, during the same term, for
\* the same kind of failover of the same backend nodes.  It depends on the
\* duplicate test of add_failover, the matching of get_failover_object and
\* the clearing of the failover list when a coordinator steps down.
ConsensusSafety ==
    \A d \in decided : d.voters # {} =>
        Cardinality({v \in d.voters :
                        [voter |-> v, kind |-> d.kind, nodes |-> d.nodes, term |-> d.term]
                            \in votes}) >= MinimumVotes

=============================================================================
