------------------------------ MODULE Watchdog ------------------------------
(***************************************************************************)
(* The watchdog cluster of pgpool-II (src/watchdog/watchdog.c): every node *)
(* runs one single-threaded event loop (watchdog_main) and its state       *)
(* machine (watchdog_state_machine and the per-state handlers); nodes talk *)
(* over TCP links, one FIFO channel per ordered pair of nodes.             *)
(*                                                                         *)
(* wd[n] is node n's g_cluster as seen by the code: its own state, the     *)
(* cluster master, the standby list, quorum, escalation, the armed timer,  *)
(* its record of every remote node's state, its sockets and its cluster    *)
(* commands in progress.  A handler is an operator from an "effect" record *)
(* (the node's record plus the packets it has written so far) to a new    *)
(* effect, so the nesting of the C calls (set_state calling the            *)
(* STATE_CHANGED handler, which issues a cluster command, ...) is kept.    *)
(* Each action of Next is one whole event the loop handles.                *)
(*                                                                         *)
(* Command ids: every command is given the smallest id no command or       *)
(* packet of the node still refers to, so a reply is matched to the very   *)
(* command it answers.  The code matches by the id alone (a hazard this   *)
(* module leaves to a later one); the intended matching is assumed.       *)
(***************************************************************************)
EXTENDS Integers, Sequences, FiniteSets, WdQuorum

CONSTANTS
    Node,         \* watchdog node ids, in the order of the remote node list
    Priority,     \* Priority[n]: wd_priority of node n
    StartupTime,  \* StartupTime[n]: startup_time.tv_sec of node n
    HalfVotes,    \* enable_consensus_with_half_votes
    Timed,        \* TRUE: a one-second clock; FALSE: timers expire at any time
    MaxCmd,       \* bound: command ids a node may have in use at once
    Stoppable,    \* nodes whose watchdog may be shut down
    InitiallyUp,  \* nodes started together, before any other event
    Isolatable,   \* nodes whose network may fail (all their links at once)
    MaxIsolations,\* bound: network failures in a behaviour
    Lifecheck     \* the lifecheck process reports node status (wd_lifecheck_method)

NoNode == 0

ASSUME NoNode \notin Node /\ MaxCmd \in Nat \ {0} /\ Timed \in BOOLEAN
       /\ Isolatable \subseteq Node /\ MaxIsolations \in Nat /\ Lifecheck \in BOOLEAN

\* BEACON_MESSAGE_INTERVAL_SECONDS
BeaconSecs == 10

VARIABLES
    wd,    \* wd[n]: node n's g_cluster (see LocalState)
    chan,       \* chan[<<n, m>>]: packets written by n and not yet read by m
    isolated,   \* nodes whose network is down: no TCP link of theirs works
    isolations  \* network failures so far

vars == <<wd, chan, isolated, isolations>>

Links == {<<n, m>> \in Node \X Node : n # m}

States == {"DEAD", "LOADING", "JOINING", "INITIALIZING", "COORDINATOR",
           "PARTICIPATE_IN_ELECTION", "STAND_FOR_COORDINATOR", "STANDBY",
           "LOST", "IN_NW_TROUBLE", "SHUTDOWN", "ADD_MESSAGE_SENT"}

\* the election packets of the WD_*_MESSAGE types
PacketTypes == {"ADD_NODE", "REQ_INFO", "DECLARE_COORDINATOR", "ERROR",
                "ACCEPT", "INFO", "JOIN_COORDINATOR", "IAM_COORDINATOR",
                "REJECT", "STAND_FOR_COORDINATOR", "CLUSTER_SERVICE",
                "INFORM_I_AM_GOING_DOWN"}

\* the CLUSTER_* codes of WD_CLUSTER_SERVICE_MESSAGE
ServiceCodes == {"NONE", "IAM_TRUE_MASTER", "IAM_RESIGNING_FROM_MASTER",
                 "IN_SPLIT_BRAIN", "NEEDS_ELECTION", "IAM_NOT_TRUE_MASTER"}

\* is_node_active
Active(s) == s \notin {"DEAD", "LOST", "SHUTDOWN"}

-----------------------------------------------------------------------------
(* Packets.  A packet carries the sender's node info (the JSON of           *)
(* get_watchdog_node_info_json / get_beacon_message) as a record.           *)

NodeInfo(l) == [st |-> l.st, esc |-> l.esc, quorum |-> l.quorum,
                nstandby |-> Cardinality(l.standby)]
NoInfo == [st |-> "DEAD", esc |-> FALSE, quorum |-> -1, nstandby |-> 0]

Packet(type, id, sub, info) == [type |-> type, id |-> id, sub |-> sub, info |-> info]

\* get_minimum_message(type, replyFor): id 0 stands for a fresh id that no
\* command of the node uses
MinimumMessage(type, replyFor) == Packet(type, replyFor.id, "NONE", NoInfo)
NoPacket == Packet("NONE", 0, "NONE", NoInfo)

-----------------------------------------------------------------------------
(* Effects: e.l is the node's record, e.out[m] what it wrote to m,          *)
(* e.self the node, e.busy the ids its in-flight packets refer to, e.up the *)
(* nodes whose watchdog runs (a connect to them succeeds), e.older the     *)
(* outcome of comparing current_state_time in a split brain, e.ovf        *)
(* whether a command needed more than MaxCmd ids, e.from the node whose     *)
(* packet the event reads, and e.silent the seconds since the master was   *)
(* last heard, where the model has no clock.                                *)

Remote(e) == Node \ {e.self}

\* send_message_to_node: written only on a connected socket
SendTo(e, m, p) ==
    IF m \in e.l.conn THEN [e EXCEPT !.out[m] = Append(@, p)] ELSE e

\* send_message(NULL, pkt): to every reachable node
SendAll(e, p) ==
    [e EXCEPT !.out = [m \in Node |-> IF m \in e.l.conn THEN Append(e.out[m], p)
                                                      ELSE e.out[m]]]

\* set_timeout(sec): the timer holds the seconds left (-1: none armed); an
\* untimed model keeps only whether one is armed
Secs(sec) == IF Timed THEN sec ELSE 0
SetTimeout(e, sec) == [e EXCEPT !.l.timer = Secs(sec)]

\* get_next_commandID, as the smallest id nothing of the node refers to
UsedIds(e) == {c.id : c \in e.l.cmds} \cup e.busy
FreeIds(e) == (1..MaxCmd) \ UsedIds(e)
SmallestId(ids) == IF ids = {} THEN 0 ELSE CHOOSE i \in ids : \A j \in ids : i <= j
NextCommandID(e) == SmallestId(FreeIds(e))

\* send_cluster_command / issue_watchdog_internal_command: to every active
\* node (target NoNode) or to one node; an unreachable node is a SEND_ERROR
\* slot (err), every packet written counts in commandSendToCount (nsent)
CommandRecipients(e, target) ==
    IF target = NoNode THEN {m \in Remote(e) : Active(e.l.view[m])} ELSE {target}

IssueCommand(e, id, dest, type, secs) ==
    IF id = 0 THEN [e EXCEPT !.ovf = TRUE]
    ELSE [e EXCEPT !.l.cmds = @ \cup {[id |-> id, type |-> type,
                                       nsent |-> Cardinality(dest \cap e.l.conn),
                                       nrep |-> 0, err |-> dest \ e.l.conn,
                                       left |-> Secs(secs), status |-> "IN_PROGRESS"]},
                   !.out = [m \in Node |->
                              IF m \in dest \cap e.l.conn
                              THEN Append(e.out[m],
                                          Packet(type, id, "NONE",
                                                 IF type = "IAM_COORDINATOR" THEN NodeInfo(e.l)
                                                                             ELSE NoInfo))
                              ELSE e.out[m]]]

SendClusterCommand(e, target, type, secs) ==
    IssueCommand(e, NextCommandID(e), CommandRecipients(e, target), type, secs)

\* connect_to_node for each target: the non-blocking connect is pending
\* (WD_SOCK_WAITING_FOR_CONNECT) if the peer listens, an error otherwise
ConnectToNodes(e, targets) == [e EXCEPT !.l.pend = @ \cup (targets \cap e.up)]

\* try_connecting_with_all_unreachable_nodes
TryConnectingWithAllUnreachableNodes(e) ==
    ConnectToNodes(e, {m \in Remote(e) : /\ m \notin e.l.conn \cup e.l.pend
                                         /\ e.l.view[m] # "SHUTDOWN"})

\* start_escalated_node (the escalation process is forked) and
\* resign_from_escalated_node (the de-escalation process is forked)
StartEscalatedNode(e) == [e EXCEPT !.l.esc = TRUE]
ResignFromEscalatedNode(e) == [e EXCEPT !.l.esc = FALSE]

\* standby_node_join_cluster / standby_node_left_cluster
StandbyNodeJoinCluster(e, m) ==
    IF e.l.st = "COORDINATOR" THEN [e EXCEPT !.l.standby = @ \cup {m}] ELSE e
StandbyNodeLeftCluster(e, m) ==
    IF e.l.st = "COORDINATOR" THEN [e EXCEPT !.l.standby = @ \ {m}] ELSE e

\* update_quorum_status, without the CLUSTER_QUORUM_CHANGED event it fires
ComputeQuorum(e) ==
    [e EXCEPT !.l.quorum = QuorumStatus(Cardinality(e.l.standby),
                                        Cardinality(Node) - 1, HalfVotes)]

-----------------------------------------------------------------------------
(* The WD_EVENT_WD_STATE_CHANGED branch of each state's handler, and        *)
(* set_state, which runs it.                                                *)

\* watchdog_state_machine_loading: ADD_NODE to every connected node still
\* DEAD, which is then ADD_MESSAGE_SENT
EnterLoading(e) ==
    LET t == {m \in e.l.conn : e.l.view[m] = "DEAD"}
        p == Packet("ADD_NODE", 0, "NONE", NodeInfo(e.l))
    IN SetTimeout([e EXCEPT
           !.l.view = [m \in Node |-> IF m \in t THEN "ADD_MESSAGE_SENT" ELSE e.l.view[m]],
           !.out = [m \in Node |-> IF m \in t THEN Append(e.out[m], p) ELSE e.out[m]]], 5)

\* watchdog_state_machine_joining
EnterJoining(e) ==
    SetTimeout(SendClusterCommand(
        TryConnectingWithAllUnreachableNodes([e EXCEPT !.l.master = NoNode]),
        NoNode, "REQ_INFO", 4), 5)

\* watchdog_state_machine_standby: JOIN_COORDINATOR to the master
EnterStandbyNoJoin(e) == e
EnterStandby(e) == SendClusterCommand(e, e.l.master, "JOIN_COORDINATOR", 5)

\* the STATE_CHANGED branch of the handler of state e.l.st
OnStateChanged(e) ==
    CASE e.l.st = "LOADING" -> EnterLoading(e)
      [] e.l.st = "JOINING" -> EnterJoining(e)
      [] e.l.st = "INITIALIZING" -> SetTimeout(e, 1)
      [] e.l.st = "STAND_FOR_COORDINATOR" ->
            SetTimeout(SendClusterCommand(e, NoNode, "STAND_FOR_COORDINATOR", 4), 5)
      [] e.l.st = "COORDINATOR" ->
            SetTimeout(SendClusterCommand(e, NoNode, "DECLARE_COORDINATOR", 4), 5)
      [] e.l.st = "PARTICIPATE_IN_ELECTION" -> SetTimeout(e, 5)
      [] e.l.st = "STANDBY" -> EnterStandby(e)
      [] OTHER -> e

\* set_state: leaving COORDINATOR resigns and clears the standby list; the
\* new state's handler runs, then INFO goes to every reachable node
LeaveState(e, s) ==
    IF e.l.st = "COORDINATOR"
    THEN [ResignFromEscalatedNode(e) EXCEPT !.l.st = s, !.l.standby = {}]
    ELSE [e EXCEPT !.l.st = s]

AnnounceState(e) == SendAll(e, Packet("INFO", 0, "NONE", NodeInfo(e.l)))

SetState(e, s) ==
    IF e.l.st = s THEN e ELSE AnnounceState(OnStateChanged(LeaveState(e, s)))

-----------------------------------------------------------------------------
(* Split brain: I_am_master_and_cluser_in_split_brain, handle_split_brain.  *)

\* 1: the local node stays master, -1: the other one does, 0: neither is a
\* coordinator.  e.older: the other node's current_state_time is earlier.
IAmMasterAndClusterInSplitBrain(e, info) ==
    LET mine == NodeInfo(e.l) IN
    CASE e.l.st # "COORDINATOR" \/ info.st # "COORDINATOR" -> 0
      [] info.esc # mine.esc -> IF info.esc THEN -1 ELSE 1
      [] info.quorum # mine.quorum -> IF info.quorum > mine.quorum THEN -1 ELSE 1
      [] info.nstandby # mine.nstandby ->
            IF info.nstandby > mine.nstandby THEN -1 ELSE 1
      [] OTHER -> IF e.older THEN -1 ELSE 1

\* the outcome r of I_am_master_and_cluser_in_split_brain acted upon
SplitBrainOutcome(e, m, p, r) ==
    CASE r = 0 ->
            SetState(SendTo(e, m, Packet("CLUSTER_SERVICE", p.id, "NEEDS_ELECTION", NoInfo)),
                     "JOINING")
      [] r = -1 ->
            SetState(SendAll(e, Packet("CLUSTER_SERVICE", p.id, "IAM_NOT_TRUE_MASTER", NoInfo)),
                     "JOINING")
      [] OTHER -> SendTo(e, m, Packet("CLUSTER_SERVICE", p.id, "IAM_TRUE_MASTER", NoInfo))

HandleSplitBrain(e, m, p) ==
    SplitBrainOutcome(e, m, p, IAmMasterAndClusterInSplitBrain(e, p.info))

-----------------------------------------------------------------------------
(* standard_packet_processor and cluster_service_message_processor.        *)

ServiceMessage(code, replyFor) == Packet("CLUSTER_SERVICE", replyFor.id, code, NoInfo)

\* get_mynode_info_message(replyFor)
MyNodeInfo(e, replyFor) == Packet("INFO", replyFor.id, "NONE", NodeInfo(e.l))

\* CLUSTER_IN_SPLIT_BRAIN: a coordinator sends its beacon at once
BeaconIfCoordinator(e) ==
    IF e.l.st = "COORDINATOR"
    THEN SendAll(e, Packet("IAM_COORDINATOR", 0, "NONE", NodeInfo(e.l)))
    ELSE e

ClusterServiceMessageProcessor(e, m, p) ==
    CASE p.sub = "IAM_TRUE_MASTER" ->
            IF e.l.st = "COORDINATOR"
            THEN SetState(SendAll(e, ServiceMessage("IAM_RESIGNING_FROM_MASTER", p)), "JOINING")
            ELSE IF e.l.master # NoNode /\ e.l.master # m
                 THEN SetState(SendAll(e, ServiceMessage("NEEDS_ELECTION", p)), "JOINING")
                 ELSE e
      [] p.sub \in {"IAM_RESIGNING_FROM_MASTER", "IAM_NOT_TRUE_MASTER"} ->
            IF e.l.master = m THEN SetState(e, "JOINING") ELSE e
      [] p.sub = "IN_SPLIT_BRAIN" -> BeaconIfCoordinator(TryConnectingWithAllUnreachableNodes(e))
      [] p.sub = "NEEDS_ELECTION" -> SetState(e, "JOINING")
      [] OTHER -> e

\* INFO from m with state p.info.st, already recorded: learn the master,
\* detect a split brain, or follow a master that is no longer coordinator
LearnMasterAnyNode(e, m, p) ==
    IF p.info.st = "COORDINATOR"
    THEN CASE e.l.master = NoNode -> [e EXCEPT !.l.master = m]
           [] e.l.master # m ->
                 IF e.l.st # "COORDINATOR"
                 THEN SendAll(e, ServiceMessage("IN_SPLIT_BRAIN", p))
                 ELSE HandleSplitBrain(e, m, p)
           [] OTHER -> e
    ELSE IF e.l.master # NoNode THEN SetState(e, "JOINING") ELSE e
LearnMaster(e, m, p) ==
    IF p.info.st = "COORDINATOR"
    THEN CASE e.l.master = NoNode -> [e EXCEPT !.l.master = m]
           [] e.l.master # m ->
                 IF e.l.st # "COORDINATOR"
                 THEN SendAll(e, ServiceMessage("IN_SPLIT_BRAIN", p))
                 ELSE HandleSplitBrain(e, m, p)
           [] OTHER -> e
    ELSE IF e.l.master = m THEN SetState(e, "JOINING") ELSE e

\* a standby of ours that reports another state has left the cluster
DropChangedStandby(e, m, old, new) ==
    IF old = "STANDBY" /\ new # old THEN StandbyNodeLeftCluster(e, m) ELSE e

\* the WD_INFO_MESSAGE branch: record the node's info, learn or check the
\* master, and drop a standby that changed state
ProcessInfo(e, m, p) ==
    DropChangedStandby(LearnMaster([e EXCEPT !.l.view[m] = p.info.st], m, p),
                       m, e.l.view[m], p.info.st)

StandardPacketProcessor(e, m, p) ==
    CASE p.type = "CLUSTER_SERVICE" -> ClusterServiceMessageProcessor(e, m, p)
      [] p.type \in {"ADD_NODE", "REQ_INFO"} -> SendTo(e, m, MyNodeInfo(e, p))
      [] p.type = "INFO" -> ProcessInfo(e, m, p)
      [] p.type = "JOIN_COORDINATOR" ->
            SendTo(e, m, MinimumMessage(IF e.l.master = e.self THEN "ACCEPT" ELSE "REJECT", p))
      [] p.type = "IAM_COORDINATOR" ->
            IF e.l.master # NoNode /\ m # e.l.master
            THEN SendAll(e, ServiceMessage("IN_SPLIT_BRAIN", p))
            \* reply, then beacon_message_received_from_node
            ELSE [SendTo(e, m, MyNodeInfo(e, p)) EXCEPT !.l.view[m] = p.info.st]
      [] OTHER -> e

-----------------------------------------------------------------------------
(* Leaving the cluster.                                                     *)

\* wd_system_will_go_down, run on every exit of the watchdog process (a
\* FATAL ereport or a shutdown): tell the active nodes, resign, close all
ResignIfCoordinator(e) ==
    IF e.l.st = "COORDINATOR" THEN ResignFromEscalatedNode(e) ELSE e
ExitProcess(e) ==
    [ResignIfCoordinator(SendClusterCommand(e, NoNode, "INFORM_I_AM_GOING_DOWN", 0))
        EXCEPT !.l.st = "SHUTDOWN", !.l.conn = {}, !.l.pend = {},
               !.l.cmds = {}, !.l.timer = -1, !.exit = TRUE]

\* the WD_EVENT_REMOTE_NODE_LOST prologue of watchdog_state_machine: close
\* both sockets (what they held unread is lost), LOST unless SHUTDOWN, and
\* forget the master if it was the node
NodeLostPrologue(e, m) ==
    [e EXCEPT !.l.conn = @ \ {m}, !.l.pend = @ \ {m}, !.drop = @ \cup {m},
              !.l.view[m] = IF @ = "SHUTDOWN" THEN "SHUTDOWN" ELSE "LOST",
              !.l.master = IF @ = m THEN NoNode ELSE @]

-----------------------------------------------------------------------------
(* Quorum changes.  Only the coordinator's handler acts on                  *)
(* WD_EVENT_CLUSTER_QUORUM_CHANGED, and update_quorum_status is called only *)
(* by a coordinator, so the event goes to that branch directly.            *)

\* WD_EVENT_CLUSTER_QUORUM_CHANGED in watchdog_state_machine_coordinator
EscalateByQuorum(e) ==
    IF e.l.quorum = -1 THEN ResignFromEscalatedNode(e)
    ELSE IF ~e.l.esc THEN StartEscalatedNode(e) ELSE e
ClusterQuorumChanged(e) ==
    IF e.l.master = e.self THEN AnnounceState(EscalateByQuorum(e)) ELSE e

\* update_quorum_status with the event it fires on a change
QuorumChangedFrom(e, old) == IF e.l.quorum # old THEN ClusterQuorumChanged(e) ELSE e
UpdateQuorumStatus(e) == QuorumChangedFrom(ComputeQuorum(e), e.l.quorum)

-----------------------------------------------------------------------------
(* The handler of each state for the events other than STATE_CHANGED: ev   *)
(* is TIMEOUT, PACKET_RCV (packet p from m), COMMAND_FINISHED (command c,   *)
(* finished with c.status by packet p from m, or NoPacket on a timeout) or  *)
(* REMOTE_NODE_LOST (node m).                                               *)

Ok(c) == c.status \in {"ALL_REPLIED", "TIMEOUT"}

\* a STAND_FOR_COORDINATOR while loading or joining
StandForReceivedEarly(e, m, p) ==
    IF Priority[e.self] > Priority[m]
    THEN SetState(SendTo(e, m, MinimumMessage("REJECT", p)), "STAND_FOR_COORDINATOR")
    ELSE SetState(SendTo(e, m, MinimumMessage("ACCEPT", p)), "PARTICIPATE_IN_ELECTION")

\* a REJECT of our ADD_NODE: the configuration does not match, FATAL
RejectedByNode(e, m, states) == IF e.l.view[m] \in states THEN ExitProcess(e) ELSE e

StateMachineLoading(e, ev, m, p, c) ==
    CASE ev = "TIMEOUT" -> SetState(e, "JOINING")
      [] ev = "PACKET_RCV" /\ p.type = "STAND_FOR_COORDINATOR" -> StandForReceivedEarly(e, m, p)
      [] ev = "PACKET_RCV" /\ p.type = "INFO" ->
            IF \A r \in Remote(e) : e.l.view[r] # "ADD_MESSAGE_SENT"
            THEN SetState(e, "INITIALIZING") ELSE e
      [] ev = "PACKET_RCV" /\ p.type = "REJECT" ->
            RejectedByNode(e, m, {"ADD_MESSAGE_SENT", "DEAD"})
      [] ev = "PACKET_RCV" -> StandardPacketProcessor(e, m, p)
      [] OTHER -> e

StateMachineJoining(e, ev, m, p, c) ==
    CASE ev = "TIMEOUT" -> SetState(e, "INITIALIZING")
      [] ev = "COMMAND_FINISHED" /\ c.type = "REQ_INFO" -> SetState(e, "INITIALIZING")
      [] ev = "PACKET_RCV" /\ p.type = "REJECT" -> RejectedByNode(e, m, {"ADD_MESSAGE_SENT"})
      [] ev = "PACKET_RCV" /\ p.type = "STAND_FOR_COORDINATOR" -> StandForReceivedEarly(e, m, p)
      [] ev = "PACKET_RCV" -> StandardPacketProcessor(e, m, p)
      [] OTHER -> e

\* the election decision when the initializing timer expires
InitializingTimeout(e) ==
    CASE e.l.master # NoNode -> SetState(e, "STANDBY")
      [] \A r \in Remote(e) : ~Active(e.l.view[r]) -> SetState(e, "COORDINATOR")
      [] \E r \in Remote(e) : e.l.view[r] = "STAND_FOR_COORDINATOR" ->
            SetState(e, "PARTICIPATE_IN_ELECTION")
      [] OTHER -> SetState(e, "STAND_FOR_COORDINATOR")

StateMachineInitializing(e, ev, m, p, c) ==
    CASE ev = "TIMEOUT" -> InitializingTimeout(e)
      [] ev = "PACKET_RCV" /\ p.type = "REJECT" -> RejectedByNode(e, m, {"ADD_MESSAGE_SENT"})
      [] ev = "PACKET_RCV" -> StandardPacketProcessor(e, m, p)
      [] OTHER -> e

\* a candidate keeps standing against another one of lower priority, or of
\* the same priority that started later
StandForOutranks(e, m) ==
    \/ Priority[e.self] > Priority[m]
    \/ Priority[e.self] = Priority[m] /\ StartupTime[e.self] <= StartupTime[m]

StateMachineStandForCord(e, ev, m, p, c) ==
    CASE ev = "COMMAND_FINISHED" /\ c.type = "STAND_FOR_COORDINATOR" ->
            CASE Ok(c) -> SetState(e, "COORDINATOR")
              [] p = NoPacket \/ p.type = "ERROR" -> SetState(e, "JOINING")
              [] p.type = "REJECT" -> SetState(e, "PARTICIPATE_IN_ELECTION")
              [] OTHER -> e
      [] ev = "TIMEOUT" -> SetState(e, "COORDINATOR")
      [] ev = "PACKET_RCV" /\ p.type = "STAND_FOR_COORDINATOR" ->
            IF StandForOutranks(e, m)
            THEN SendTo(e, m, MinimumMessage("REJECT", p))
            ELSE SetState(SendTo(e, m, MinimumMessage("ACCEPT", p)), "PARTICIPATE_IN_ELECTION")
      [] ev = "PACKET_RCV" /\ p.type = "DECLARE_COORDINATOR" ->
            IF Priority[e.self] > Priority[m] THEN SendTo(e, m, MinimumMessage("REJECT", p))
            ELSE SetState(SendTo(e, m, MinimumMessage("ACCEPT", p)), "JOINING")
      [] ev = "PACKET_RCV" -> StandardPacketProcessor(e, m, p)
      [] OTHER -> e

\* DECLARE_COORDINATOR succeeded (all replied or timed out): the quorum is
\* computed while the master is still unset, then the node is master and
\* escalates if it has the quorum
CoordinatorDeclaredAlwaysEscalates(e) ==
    StartEscalatedNode([UpdateQuorumStatus(e) EXCEPT !.l.master = e.self])
EscalateIfQuorum(e) == IF e.l.quorum = -1 THEN e ELSE StartEscalatedNode(e)
CoordinatorDeclared(e) ==
    EscalateIfQuorum([UpdateQuorumStatus(e) EXCEPT !.l.master = e.self])

StateMachineCoordinator(e, ev, m, p, c) ==
    CASE ev = "COMMAND_FINISHED" /\ c.type = "DECLARE_COORDINATOR" ->
            IF Ok(c) THEN CoordinatorDeclared(e) ELSE SetState(e, "JOINING")
      [] ev = "COMMAND_FINISHED" /\ c.type = "IAM_COORDINATOR" /\ c.status = "NODE_REJECTED" ->
            StandbyNodeLeftCluster(e, m)
      [] ev = "TIMEOUT" ->
            SetTimeout(SendClusterCommand(e, NoNode, "IAM_COORDINATOR", 5), 10)
      [] ev = "REMOTE_NODE_LOST" -> StandbyNodeLeftCluster(e, m)
      [] ev = "PACKET_RCV" /\ p.type = "STAND_FOR_COORDINATOR" ->
            SendTo(e, m, MinimumMessage("REJECT", p))
      [] ev = "PACKET_RCV" /\ p.type = "DECLARE_COORDINATOR" ->
            SendTo(e, m, MinimumMessage("ERROR", p))
      \* beacon_message_received_from_node, then handle_split_brain
      [] ev = "PACKET_RCV" /\ p.type = "IAM_COORDINATOR" ->
            HandleSplitBrain([e EXCEPT !.l.view[m] = p.info.st], m, p)
      [] ev = "PACKET_RCV" /\ p.type = "JOIN_COORDINATOR" ->
            StandbyNodeJoinCluster(SendTo(e, m, MinimumMessage("ACCEPT", p)), m)
      [] ev = "PACKET_RCV" -> StandardPacketProcessor(e, m, p)
      [] OTHER -> e

\* watchdog_state_machine_voting (PARTICIPATE_IN_ELECTION)
\* a voter accepts a candidate of at least its own priority
VoterYieldsInverted(e, m) == Priority[m] <= Priority[e.self]
VoterYields(e, m) == Priority[m] >= Priority[e.self]

StateMachineVoting(e, ev, m, p, c) ==
    CASE ev = "TIMEOUT" -> SetState(e, "JOINING")
      [] ev = "PACKET_RCV" /\ p.type = "STAND_FOR_COORDINATOR" ->
            IF VoterYields(e, m) THEN SendTo(e, m, MinimumMessage("ACCEPT", p))
            ELSE SetState(SendTo(e, m, MinimumMessage("REJECT", p)), "STAND_FOR_COORDINATOR")
      [] ev = "PACKET_RCV" /\ p.type = "IAM_COORDINATOR" -> SetState(e, "JOINING")
      [] ev = "PACKET_RCV" /\ p.type = "DECLARE_COORDINATOR" ->
            IF VoterYields(e, m) THEN SetState(SendTo(e, m, MinimumMessage("ACCEPT", p)), "INITIALIZING")
            ELSE SetState(SendTo(e, m, MinimumMessage("REJECT", p)), "STAND_FOR_COORDINATOR")
      [] ev = "PACKET_RCV" -> StandardPacketProcessor(e, m, p)
      [] OTHER -> e

\* a standby learns that a node was lost: rejoin if it was the master
StandbyNodeLostIgnored(e) == e
StandbyNodeLost(e) == IF e.l.master = NoNode THEN SetState(e, "JOINING") ELSE e

\* seconds since a packet of the master was read (last_rcv_time): a clock
\* model counts them in l.rcv, and the packet read by this event is the
\* latest; without a clock the event says how long it has been
SilenceSecs(e) ==
    IF ~Timed THEN e.silent ELSE IF e.from = e.l.master THEN 0 ELSE e.l.rcv

\* the tail of watchdog_state_machine_standby, after every event: two
\* beacons missed, rejoin; one missed, ask the master for its INFO
StandbyTail(e) ==
    CASE e.l.master = NoNode -> e
      [] SilenceSecs(e) >= 2 * BeaconSecs -> SetState(e, "JOINING")
      [] SilenceSecs(e) >= BeaconSecs ->
            SendTo(e, e.l.master, Packet("REQ_INFO", 0, "NONE", NoInfo))
      [] OTHER -> e

StateMachineStandby(e, ev, m, p, c) ==
  StandbyTail(
    CASE ev = "TIMEOUT" -> SetTimeout(e, 5)
      [] ev = "COMMAND_FINISHED" /\ c.type = "JOIN_COORDINATOR" /\ ~Ok(c) ->
            SetState(e, "JOINING")
      [] ev = "REMOTE_NODE_LOST" -> StandbyNodeLost(e)
      [] ev = "PACKET_RCV" /\ p.type = "STAND_FOR_COORDINATOR" ->
            IF e.l.master = NoNode
            THEN SetState(SendTo(e, m, MinimumMessage("ACCEPT", p)), "PARTICIPATE_IN_ELECTION")
            ELSE SetState(SendTo(e, m, MinimumMessage("ERROR", p)), "JOINING")
      [] ev = "PACKET_RCV" /\ p.type = "DECLARE_COORDINATOR" ->
            IF m # e.l.master THEN SendTo(e, m, MinimumMessage("ERROR", p))
            ELSE SetState(e, "JOINING")
      [] ev = "PACKET_RCV" /\ p.type = "IAM_COORDINATOR" ->
            IF m # e.l.master THEN SendAll(e, ServiceMessage("IN_SPLIT_BRAIN", p))
            ELSE [SendTo(e, m, MyNodeInfo(e, p)) EXCEPT !.l.view[m] = p.info.st]
      [] ev = "PACKET_RCV" -> StandardPacketProcessor(e, m, p)
      [] OTHER -> e)

\* watchdog_state_machine after its prologue: the handler of the state
StateMachine(e, ev, m, p, c) ==
    CASE e.l.st = "LOADING" -> StateMachineLoading(e, ev, m, p, c)
      [] e.l.st = "JOINING" -> StateMachineJoining(e, ev, m, p, c)
      [] e.l.st = "INITIALIZING" -> StateMachineInitializing(e, ev, m, p, c)
      [] e.l.st = "COORDINATOR" -> StateMachineCoordinator(e, ev, m, p, c)
      [] e.l.st = "PARTICIPATE_IN_ELECTION" -> StateMachineVoting(e, ev, m, p, c)
      [] e.l.st = "STAND_FOR_COORDINATOR" -> StateMachineStandForCord(e, ev, m, p, c)
      [] e.l.st = "STANDBY" -> StateMachineStandby(e, ev, m, p, c)
      [] OTHER -> e

NoCommand == [id |-> 0, type |-> "NONE", nsent |-> 0, nrep |-> 0, err |-> {},
              left |-> 0, status |-> "IN_PROGRESS"]

\* WD_EVENT_REMOTE_NODE_LOST
RemoteNodeLost(e, m) == StateMachine(NodeLostPrologue(e, m), "REMOTE_NODE_LOST", m, NoPacket, NoCommand)

\* get_wd_command_from_reply: the command in progress with the reply's id
ReplyTo(e, id) == CHOOSE x \in e.l.cmds : x.id = id
\* the reply is counted (commandReplyFromCount), and the loop over the
\* result slots clears every slot up to m's (clear_command_node_result)
CountReply(c, m) == [c EXCEPT !.nrep = @ + 1, !.err = {k \in @ : k > m}]
RemoveCommand(e, id) == [e EXCEPT !.l.cmds = {x \in @ : x.id # id}]
Rejected(p) == p.type \in {"REJECT", "ERROR"}

\* the command c, finished by p from m, goes to the state machine
FinishCommand(e, m, p, c) == RemoveCommand(StateMachine(e, "COMMAND_FINISHED", m, p, c), c.id)

\* the counted command c1 replaces c; it finishes when complete or rejected
RecordReply(e, m, p, c, c1) ==
    LET e1 == [e EXCEPT !.l.cmds = (@ \ {c}) \cup {c1}] IN
    IF c1.nrep >= c1.nsent \/ Rejected(p)
    THEN FinishCommand(e1, m, p, [c1 EXCEPT !.status = IF Rejected(p) THEN "NODE_REJECTED"
                                                                  ELSE "ALL_REPLIED"])
    ELSE e1

\* watchdog_internal_command_packet_processor, for a reply p from m to the
\* command in progress with p's id: INFO is processed (again), the reply is
\* counted, and the command finishes once the count reaches the packets
\* sent, or at once on REJECT or ERROR.
CommandReply(e, m, p) ==
    RecordReply(IF p.type = "INFO" THEN StandardPacketProcessor(e, m, p) ELSE e,
                m, p, ReplyTo(e, p.id), CountReply(ReplyTo(e, p.id), m))

IsCommandReply(e, p) ==
    p.type \in {"ERROR", "ACCEPT", "REJECT", "INFO"} /\ \E x \in e.l.cmds : x.id = p.id

\* a reply goes to its command, the rest to the handler of the (possibly
\* new) state
RouteReply(e, m, p) ==
    IF IsCommandReply(e, p) THEN CommandReply(e, m, p)
    ELSE StateMachine(e, "PACKET_RCV", m, p, NoCommand)

\* WD_EVENT_PACKET_RCV through watchdog_state_machine: INFO is processed
\* first, a peer going down is lost, then the packet is routed
PacketRcv(e, m, p) ==
    IF p.type = "INFORM_I_AM_GOING_DOWN"
    THEN RemoteNodeLost([e EXCEPT !.l.view[m] = "SHUTDOWN"], m)
    ELSE RouteReply(IF p.type = "INFO" THEN StandardPacketProcessor(e, m, p) ELSE e, m, p)

-----------------------------------------------------------------------------
(* The event loop.  Each action is one event watchdog_main handles.         *)

\* packet types issued as cluster commands: their id is the sender's
CommandTypes == {"REQ_INFO", "STAND_FOR_COORDINATOR", "DECLARE_COORDINATOR",
                 "JOIN_COORDINATOR", "IAM_COORDINATOR", "INFORM_I_AM_GOING_DOWN"}

\* the watchdog process of n runs (started and not exited)
Running(n) == wd[n].st \notin {"DEAD", "SHUTDOWN"}
Up == {n \in Node : Running(n)}

\* the packets of link l still in flight once the packet of rd is read
PacketsOn(l, rd) == LET q == IF l = rd THEN Tail(chan[l]) ELSE chan[l]
                    IN {q[i] : i \in 1..Len(q)}

\* ids of n's commands that packets in flight still carry: its commands on
\* the way to a running node, and replies to it
Busy(n, rd) ==
    ( UNION {{p.id : p \in {q \in PacketsOn(<<n, m>>, rd) :
                               q.type \in CommandTypes /\ Running(m)}}
             \cup {p.id : p \in {q \in PacketsOn(<<m, n>>, rd) : q.type \notin CommandTypes}}
             : m \in Node \ {n}} ) \ {0}

NoLink == <<NoNode, NoNode>>

EffRd(n, older, rd) ==
    [l |-> wd[n], out |-> [m \in Node |-> <<>>], self |-> n,
                  busy |-> Busy(n, rd), up |-> Up, older |-> older,
                  ovf |-> FALSE, exit |-> FALSE, drop |-> {},
                  from |-> rd[1], silent |-> 0]
Eff(n, older) == EffRd(n, older, NoLink)

\* packets written to a link of an isolated node are lost
LinkUp(n, m) == n \notin isolated /\ m \notin isolated

\* the effect e of an event at n is committed: n's record, the packets it
\* wrote, the packet it read from link rd; a closed socket drops what it
\* held unread, an exited process everything sent to it
Commit(n, e, rd) ==
    /\ ~e.ovf
    /\ wd' = [wd EXCEPT ![n] = [e.l EXCEPT !.rcv = IF e.l.master \in {NoNode, rd[1]} THEN 0
                                                                               ELSE @]]
    /\ chan' = [l \in Links |->
                  CASE l[1] = n -> IF LinkUp(n, l[2]) THEN chan[l] \o e.out[l[2]] ELSE chan[l]
                    [] l[2] = n /\ (e.exit \/ l[1] \in e.drop) -> <<>>
                    [] l = rd -> Tail(chan[l])
                    [] OTHER -> chan[l]]
    /\ UNCHANGED <<isolated, isolations>>

InitLocal == [st |-> "DEAD", master |-> NoNode, standby |-> {}, quorum |-> -1,
              esc |-> FALSE, timer |-> -1, view |-> [m \in Node |-> "DEAD"],
              conn |-> {}, pend |-> {}, cmds |-> {}, rcv |-> 0]

\* a node of InitiallyUp has run watchdog_main up to set_state(WD_LOADING):
\* its connects to the others pend and no packet is written yet (Loading
\* writes ADD_NODE only on connected sockets, INFO to reachable nodes)
StartedLocal(n) ==
    [InitLocal EXCEPT !.st = "LOADING", !.timer = Secs(5), !.pend = InitiallyUp \ {n}]

Init == /\ wd = [n \in Node |-> IF n \in InitiallyUp THEN StartedLocal(n) ELSE InitLocal]
        /\ chan = [l \in Links |-> <<>>]
        /\ isolated = {} /\ isolations = 0

\* watchdog_main starts: wd_cluster_initialize, connect_with_all_configured_nodes,
\* set_state(WD_LOADING)
Start(n) ==
    /\ wd[n].st = "DEAD"
    /\ Commit(n, SetState(ConnectToNodes(Eff(n, FALSE), Node \ {n}), "LOADING"), NoLink)

\* update_successful_outgoing_cons: the connect completed, then
\* WD_EVENT_NEW_OUTBOUND_CONNECTION sends ADD_NODE
ConnectionEstablished(n, m) ==
    /\ Running(n) /\ Running(m) /\ LinkUp(n, m) /\ m \in wd[n].pend
    /\ LET e == [Eff(n, FALSE) EXCEPT !.l.pend = @ \ {m}, !.l.conn = @ \cup {m}]
       IN Commit(n, SendTo(e, m, Packet("ADD_NODE", 0, "NONE", NodeInfo(e.l))), NoLink)

\* update_successful_outgoing_cons: the connect failed (the peer is gone or
\* cut off)
ConnectFailed(n, m) ==
    /\ Running(n) /\ (~Running(m) \/ ~LinkUp(n, m)) /\ m \in wd[n].pend
    /\ Commit(n, [Eff(n, FALSE) EXCEPT !.l.pend = @ \ {m}], NoLink)

\* the first packet on a new connection is ADD_NODE and identifies the node
\* (the unidentified socket path of read_sockets)
IdentifyNode(e, m, p) ==
    IF p.type = "ADD_NODE" THEN [e EXCEPT !.l.conn = @ \cup {m}, !.l.view[m] = p.info.st]
    ELSE e

\* read_sockets: a packet from m
Receive(n, m) ==
    /\ Running(n) /\ chan[<<m, n>>] # <<>>
    /\ \E older \in BOOLEAN :
         Commit(n, PacketRcv(IdentifyNode(EffRd(n, older, <<m, n>>), m, Head(chan[<<m, n>>])),
                             m, Head(chan[<<m, n>>])), <<m, n>>)

\* read_sockets: the peer closed the connection (EOF), close_socket_connection
SocketClosed(n, m) ==
    /\ Running(n) /\ wd[m].st = "SHUTDOWN" /\ m \in wd[n].conn /\ chan[<<m, n>>] = <<>>
    /\ Commit(n, [Eff(n, FALSE) EXCEPT !.l.conn = @ \ {m}], NoLink)

\* a read or write on the socket to m fails (the link is cut):
\* close_socket_connection; service_unreachable_nodes then finds m lost
SocketError(n, m) ==
    /\ Running(n) /\ ~LinkUp(n, m) /\ m \in wd[n].conn
    /\ Commit(n, [Eff(n, FALSE) EXCEPT !.l.conn = @ \ {m}], NoLink)

\* g_timeout_sec elapsed: WD_EVENT_TIMEOUT
Timeout(n) ==
    /\ Running(n) /\ wd[n].timer = 0
    /\ Commit(n, StateMachine([Eff(n, FALSE) EXCEPT !.l.timer = -1], "TIMEOUT",
                           NoNode, NoPacket, NoCommand), NoLink)

\* check_for_current_command_timeout: COMMAND_FINISHED_TIMEOUT
CommandTimeout(n) ==
    /\ Running(n)
    /\ \E c \in wd[n].cmds :
         /\ c.left = 0
         /\ Commit(n, FinishCommand(Eff(n, FALSE), NoNode, NoPacket,
                                   [c EXCEPT !.status = "TIMEOUT"]), NoLink)

\* watchdog_main: a coordinator recomputes the quorum every iteration
UpdateQuorum(n) ==
    /\ Running(n) /\ wd[n].st = "COORDINATOR"
    /\ QuorumStatus(Cardinality(wd[n].standby), Cardinality(Node) - 1, HalfVotes)
         # wd[n].quorum
    /\ Commit(n, UpdateQuorumStatus(Eff(n, FALSE)), NoLink)

\* Without a clock, StandbyTail's silent branches are taken by an event of
\* their own: a standby event that changes nothing else finds the master
\* silent for one beacon interval or two.  (With a clock every standby
\* event runs the tail on l.rcv.)
MasterSilent(n) ==
    /\ ~Timed /\ Running(n) /\ wd[n].st = "STANDBY" /\ wd[n].master # NoNode
    /\ \E s \in {BeaconSecs, 2 * BeaconSecs} :
         Commit(n, StandbyTail([Eff(n, FALSE) EXCEPT !.silent = s]), NoLink)

\* process_IPC_nodeStatusChange_command with fire_node_status_event: the
\* lifecheck process reports remote node m DEAD, which it does for a node
\* it cannot reach; WD_EVENT_REMOTE_NODE_LOST.  (An ALIVE report fires
\* WD_EVENT_REMOTE_NODE_FOUND, which no handler acts on.)
NodeStatusDead(n, m) ==
    /\ Lifecheck /\ Running(n) /\ (~Running(m) \/ ~LinkUp(n, m))
    /\ Commit(n, RemoteNodeLost(Eff(n, FALSE), m), NoLink)

\* the lifecheck reports the local node DEAD (its network is down):
\* WD_EVENT_LOCAL_NODE_LOST sets WD_LOST, whose handler
\* (watchdog_state_machine_nw_error) ends the process with FATAL
LocalNodeLost(n) ==
    /\ Lifecheck /\ Running(n) /\ n \in isolated
    /\ Commit(n, ExitProcess(SetState(Eff(n, FALSE), "LOST")), NoLink)

\* WD_EVENT_NW_LINK_IS_INACTIVE from the interface monitor with every
\* monitored interface down (any_interface_available() false): set_state
\* moves to IN_NW_TROUBLE, whose handler (watchdog_state_machine_nw_error)
\* ends the process with FATAL on the STATE_CHANGED event
NwLinkInactive(n) ==
    /\ Running(n) /\ n \in isolated
    /\ Commit(n, ExitProcess(SetState(Eff(n, FALSE), "IN_NW_TROUBLE")), NoLink)

\* service_unreachable_nodes: an active node no socket reaches is lost
ServiceUnreachableNodes(n, m) ==
    /\ Running(n) /\ Active(wd[n].view[m]) /\ m \notin wd[n].conn \cup wd[n].pend
    /\ Commit(n, RemoteNodeLost(Eff(n, FALSE), m), NoLink)

\* service_lost_connections: a node neither DEAD nor SHUTDOWN that no socket
\* reaches is dialled again (a connect that completes later is
\* update_successful_outgoing_cons); the 10 s back-off is not modelled, so
\* the retry may come at any time
ServiceLostConnections(n, m) ==
    /\ Running(n) /\ Running(m) /\ wd[n].view[m] \notin {"DEAD", "SHUTDOWN"}
    /\ m \notin wd[n].conn \cup wd[n].pend
    /\ Commit(n, ConnectToNodes(Eff(n, FALSE), {m}), NoLink)

\* the watchdog is shut down (wd_child_exit)
Shutdown(n) ==
    /\ n \in Stoppable /\ Running(n)
    /\ Commit(n, ExitProcess(Eff(n, FALSE)), NoLink)

\* the network of node k fails: its links stop carrying packets, and what
\* they held is lost; the nodes notice only when a socket operation fails
Isolate(k) ==
    /\ k \in Isolatable /\ k \notin isolated /\ isolations < MaxIsolations
    /\ isolated' = isolated \cup {k} /\ isolations' = isolations + 1
    /\ chan' = [l \in Links |-> IF k \in {l[1], l[2]} THEN <<>> ELSE chan[l]]
    /\ UNCHANGED wd

\* the network of node k is back
Heal(k) ==
    /\ k \in isolated /\ isolated' = isolated \ {k}
    /\ UNCHANGED <<wd, chan, isolations>>

\* every event the loop has at hand is handled: packets, connects, closed
\* sockets, lost nodes, the coordinator's quorum, expired timers and commands
Settled ==
    /\ \A l \in Links : chan[l] = <<>>
    /\ \A n \in Node : Running(n) =>
          /\ wd[n].pend = {} /\ wd[n].timer # 0 /\ \A c \in wd[n].cmds : c.left # 0
          /\ \A m \in Node \ {n} :
                /\ ~(wd[m].st = "SHUTDOWN" /\ m \in wd[n].conn)
                /\ Active(wd[n].view[m]) => m \in wd[n].conn
          /\ wd[n].st = "COORDINATOR" =>
                QuorumStatus(Cardinality(wd[n].standby), Cardinality(Node) - 1, HalfVotes)
                  = wd[n].quorum

\* a second on the standby's silence counter; it is read only in STANDBY,
\* and stops at two beacon intervals, the longest silence the tail tells
\* apart
SilenceAfterTick(l) ==
    IF l.st = "STANDBY" /\ l.master # NoNode THEN IF l.rcv < 2 * BeaconSecs THEN l.rcv + 1 ELSE l.rcv
    ELSE 0

TickUnarmed ==
    /\ Timed /\ Settled
    /\ wd' = [n \in Node |->
                IF Running(n)
                THEN [wd[n] EXCEPT !.timer = IF @ # 0 THEN @ - 1 ELSE @,
                                   !.cmds = {[c EXCEPT !.left = @ - 1] : c \in @},
                                   !.rcv = SilenceAfterTick(wd[n])]
                ELSE wd[n]]
    /\ UNCHANGED <<chan, isolated, isolations>>

\* a second passes: every armed timer and command of a running node counts
\* down (a packet is read within the second it is sent)
Tick ==
    /\ Timed /\ Settled
    /\ wd' = [n \in Node |->
                IF Running(n)
                THEN [wd[n] EXCEPT !.timer = IF @ > 0 THEN @ - 1 ELSE @,
                                   !.cmds = {[c EXCEPT !.left = @ - 1] : c \in @},
                                   !.rcv = SilenceAfterTick(wd[n])]
                ELSE wd[n]]
    /\ UNCHANGED <<chan, isolated, isolations>>

Next ==
    \/ Tick
    \/ \E n \in Node :
       \/ Start(n) \/ Timeout(n) \/ CommandTimeout(n) \/ UpdateQuorum(n)
       \/ MasterSilent(n) \/ Shutdown(n) \/ Isolate(n) \/ Heal(n) \/ LocalNodeLost(n) \/ NwLinkInactive(n)
       \/ \E m \in Node \ {n} :
             \/ Receive(n, m) \/ ConnectionEstablished(n, m) \/ ConnectFailed(n, m)
             \/ SocketClosed(n, m) \/ SocketError(n, m) \/ ServiceUnreachableNodes(n, m)
             \/ ServiceLostConnections(n, m) \/ NodeStatusDead(n, m)

Spec == Init /\ [][Next]_vars

\* watchdog_main never blocks for good: select() returns at least once a
\* second, so a pending event is handled and time goes on
FairSpec == Spec /\ WF_vars(Next)

-----------------------------------------------------------------------------
(* Properties.                                                              *)

CommandRec == [id : 1..MaxCmd, type : CommandTypes, nsent : 0..Cardinality(Node),
               nrep : Nat, err : SUBSET Node, left : 0..5,
               status : {"IN_PROGRESS"}]

TypeOK ==
    /\ \A n \in Node :
         /\ wd[n].st \in States /\ wd[n].master \in Node \cup {NoNode}
         /\ wd[n].standby \subseteq Node \ {n} /\ wd[n].quorum \in {-1, 0, 1}
         /\ wd[n].esc \in BOOLEAN /\ wd[n].timer \in -1..10
         /\ wd[n].view \in [Node -> States]
         /\ wd[n].conn \subseteq Node \ {n} /\ wd[n].pend \subseteq Node \ {n}
         /\ wd[n].cmds \subseteq CommandRec /\ wd[n].rcv \in 0..2 * BeaconSecs
    /\ isolated \subseteq Isolatable /\ isolations \in 0..MaxIsolations
    /\ \A l \in Links : \A i \in 1..Len(chan[l]) :
         /\ chan[l][i].type \in PacketTypes /\ chan[l][i].sub \in ServiceCodes

\* At most one node holds the delegate IP: start_escalated_node runs only
\* on a coordinator with quorum, so two escalated nodes would both count a
\* majority of standbys.
AtMostOneEscalated ==
    \A n, m \in Node : wd[n].esc /\ wd[m].esc => n = m

\* A standby always knows its master: watchdog_state_machine_standby
\* dereferences WD_MASTER_NODE when a beacon comes from another node
\* (watchdog.c:6255), so a STANDBY node whose master was forgotten (the
\* master lost, or reporting a state other than COORDINATOR) must have
\* left the state in the same event.
StandbyHasMaster ==
    \A n \in Node : wd[n].st = "STANDBY" => wd[n].master \in Node \ {n}

\* The election picks the node of highest wd_priority: when the nodes start
\* together, a node that declared itself master (COORDINATOR with master
\* itself, after its DECLARE_COORDINATOR command succeeded) has the highest
\* priority of the cluster.  Stand-for, participate and declare handlers
\* compare priorities, but each node sees only its own timers and the
\* packets that reached it.
CoordinatorHasHighestPriority ==
    \A n \in Node : wd[n].st = "COORDINATOR" /\ wd[n].master = n =>
                     \A m \in Node : Priority[m] <= Priority[n]

\* A declared master is never preempted: a node that starts later, or loses
\* the election, joins it as standby (set_state(WD_JOINING) of a master
\* happens only on a split brain, a failed DECLARE_COORDINATOR or a lost
\* quorum of votes, none of which a timed cluster without failures
\* reaches); the master leaves the role only by shutting down.  Without
\* the clock, two nodes whose timers expire before their connects complete
\* both become master and one resigns in the split brain that follows.
MasterIsNotPreempted ==
    [][\A n \in Node : wd[n].st = "COORDINATOR" /\ wd[n].master = n =>
                         wd'[n].st \in {"COORDINATOR", "SHUTDOWN"}]_vars

\* one declared coordinator, holding the delegate IP, every other node its
\* standby, and the coordinator's standby list holding them all
ClusterStable ==
    \E c \in Node :
       /\ wd[c].st = "COORDINATOR" /\ wd[c].master = c /\ wd[c].esc
       /\ wd[c].standby = Node \ {c}
       /\ \A m \in Node \ {c} : wd[m].st = "STANDBY" /\ wd[m].master = c

\* Nodes started together eventually form a stable cluster and stay in it:
\* the election, the JOIN_COORDINATOR commands of the standbys and the
\* coordinator's quorum and escalation all complete, and the beacons of the
\* coordinator (IAM_COORDINATOR every 10 s) never disturb it.
EventuallyStable == <>[]ClusterStable
=============================================================================
