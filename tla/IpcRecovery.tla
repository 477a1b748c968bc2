---------------------------- MODULE IpcRecovery -----------------------------
(***************************************************************************)
(* The online-recovery command of the IPC server (watchdog.c), on the node *)
(* whose pgpool-II runs the recovery, composed with a remote node R that   *)
(* handles it as OnlineRecovery does.                                      *)
(*                                                                         *)
(* The local pgpool-II writes WD_IPC_ONLINE_RECOVERY_COMMAND (START or END) *)
(* to the IPC socket.  read_ipc_socket_and_process hands it to             *)
(* process_IPC_online_recovery, which writes the packet to every remote    *)
(* node (send_command_packet_to_remote_nodes) and keeps the command in     *)
(* g_cluster.ipc_commands with a result slot per node.  Replies are        *)
(* matched by command id and counted by                                    *)
(* reply_is_received_for_pgpool_replicate_command; a lost node lowers the  *)
(* send count (wd_command_processor_for_node_lost_event); a node that      *)
(* could not be written to is written again by service_ipc_commands when   *)
(* a connect completes at once.  IPC commands have no timeout.             *)
(*                                                                         *)
(* The other remote nodes are abstracted to a peer that answers every      *)
(* packet with ACCEPT or REJECT.  Sockets fail (packets in flight are      *)
(* lost); the main loop then reconnects at once, starts a connect that     *)
(* completes later, or declares the node lost; a lost node may rejoin.     *)
(***************************************************************************)
EXTENDS OnlineRecovery, Sequences, SequencesExt

CONSTANTS
    R,          \* the remote node modelled by OnlineRecovery
    Others,     \* the other remote nodes
    MaxIpc,     \* bound: IPC commands from the local pgpool-II
    MaxFaults   \* bound: socket failures

Remote == {R} \cup Others

ASSUME R \notin Others /\ MaxIpc \in Nat /\ MaxFaults \in Nat

VARIABLES
    ipc,        \* the IPC command in g_cluster.ipc_commands, or NoIpc
    issuedIpc,  \* IPC commands read so far; command k has command id k
    fns,        \* fns[k]: START or END, for the commands issued
    results,    \* results[k]: the result frames written to the IPC socket
    active,     \* is_node_active: the node is not LOST
    link,       \* is_node_reachable: a socket to the node is connected
    connecting, \* a connect to the node is in progress
    toNode,     \* packets written to a node and not read by it yet
    fromNode,   \* packets written by a node and not read yet
    startCmd,   \* startCmd[i]: the command id of R's i-th START
    faults      \* socket failures so far

ipcVars == <<ipc, issuedIpc, fns, results, active, link, connecting, toNode,
             fromNode, startCmd, faults>>

ipcAllVars == <<allVars, ipcVars>>

NoIpc == [k |-> 0]
IpcIds == 1..MaxIpc

IpcInit ==
    /\ RecInit
    /\ ipc = NoIpc /\ issuedIpc = 0
    /\ fns = [k \in IpcIds |-> "NONE"]
    /\ results = [k \in IpcIds |-> <<>>]
    /\ active = [p \in Remote |-> TRUE] /\ link = [p \in Remote |-> TRUE]
    /\ connecting = [p \in Remote |-> FALSE]
    /\ toNode = [p \in Remote |-> <<>>] /\ fromNode = [p \in Remote |-> <<>>]
    /\ startCmd = [i \in Ids |-> 0]
    /\ faults = 0

\* write_ipc_command_with_result_data: a result frame to the IPC client
WriteResult(k, res) == results' = [results EXCEPT ![k] = Append(@, res)]

\* the slot of a node after send_command_packet_to_remote_nodes
SendSlot(p) ==
    IF ~active[p] THEN "DO_NOT_SEND" ELSE IF ~link[p] THEN "SEND_ERROR" ELSE "SENT"

\* read_ipc_socket_and_process with process_IPC_online_recovery.  A node
\* not STANDBY or COORDINATOR answers TRY_AGAIN; with no active remote node
\* (get_cluster_node_count) the answer is OK at once; a command written to
\* no node is an error; otherwise it waits in g_cluster.ipc_commands.
ProcessIPCOnlineRecovery ==
    /\ ipc = NoIpc /\ issuedIpc < MaxIpc
    /\ \E fn \in {"START", "END"}, joined \in BOOLEAN :
         LET k == issuedIpc + 1
             slot == [p \in Remote |-> SendSlot(p)]
             sent == {p \in Remote : slot[p] = "SENT"}
         IN /\ issuedIpc' = k
            /\ fns' = [fns EXCEPT ![k] = fn]
            /\ IF ~joined
               THEN WriteResult(k, "CLUSTER_IN_TRAN") /\ UNCHANGED <<ipc, toNode>>
               ELSE IF \A p \in Remote : ~active[p]
               THEN WriteResult(k, "RESULT_OK") /\ UNCHANGED <<ipc, toNode>>
               ELSE IF sent = {}
               THEN WriteResult(k, "RESULT_BAD") /\ UNCHANGED <<ipc, toNode>>
               ELSE /\ ipc' = [k |-> k, slot |-> slot, sendTo |-> Cardinality(sent),
                               replyFrom |-> 0]
                    /\ toNode' = [p \in Remote |-> IF p \in sent
                                     THEN Append(toNode[p], [id |-> k, fn |-> fn])
                                     ELSE toNode[p]]
                    /\ UNCHANGED results
    /\ UNCHANGED <<allVars, active, link, connecting, fromNode, startCmd, faults>>

\* The command after a reply from p: REPLIED and counted, whatever the slot
\* was.
Replied(c, p) == [c EXCEPT !.slot[p] = "REPLIED", !.replyFrom = @ + 1]

\* commandReplyFromCount >= commandSendToCount
AllReplied(c) == c.replyFrom >= c.sendTo

\* Mutant of ReceiveReply: a REJECT writes BAD but leaves the command listed.
ReceiveReplyKept(p) ==
    /\ fromNode[p] # <<>>
    /\ LET pkt == Head(fromNode[p]) IN
       IF ipc # NoIpc /\ pkt.id = ipc.k
       THEN LET d == Replied(ipc, p) IN
            IF pkt.type # "ACCEPT"
            THEN WriteResult(ipc.k, "RESULT_BAD") /\ UNCHANGED ipc
            ELSE IF AllReplied(d)
            THEN WriteResult(ipc.k, "RESULT_OK") /\ ipc' = NoIpc
            ELSE ipc' = d /\ UNCHANGED results
       ELSE UNCHANGED <<ipc, results>>
    /\ fromNode' = [fromNode EXCEPT ![p] = Tail(@)]
    /\ UNCHANGED <<allVars, issuedIpc, fns, active, link, connecting, toNode,
                   startCmd, faults>>

\* watchdog_internal_command_packet_processor: an ACCEPT, REJECT or ERROR
\* whose id is that of an IPC command goes to
\* reply_is_received_for_pgpool_replicate_command: a non-ACCEPT finishes
\* the command with BAD, and the last awaited reply with OK; a finished
\* command is removed (cleanUpIPCCommand).  A reply for no command is
\* dropped.
ReceiveReply(p) ==
    /\ fromNode[p] # <<>>
    /\ LET pkt == Head(fromNode[p]) IN
       IF ipc # NoIpc /\ pkt.id = ipc.k
       THEN LET d == Replied(ipc, p) IN
            IF pkt.type # "ACCEPT"
            THEN WriteResult(ipc.k, "RESULT_BAD") /\ ipc' = NoIpc
            ELSE IF AllReplied(d)
            THEN WriteResult(ipc.k, "RESULT_OK") /\ ipc' = NoIpc
            ELSE ipc' = d /\ UNCHANGED results
       ELSE UNCHANGED <<ipc, results>>
    /\ fromNode' = [fromNode EXCEPT ![p] = Tail(@)]
    /\ UNCHANGED <<allVars, issuedIpc, fns, active, link, connecting, toNode,
                   startCmd, faults>>

\* Mutant of NodeLost: the send count is lowered but the command is not
\* finished when no reply is awaited any more.
NodeLostNoFinish(p) ==
    /\ active' = [active EXCEPT ![p] = FALSE]
    /\ link' = [link EXCEPT ![p] = FALSE]
    /\ toNode' = [toNode EXCEPT ![p] = <<>>]
    /\ fromNode' = [fromNode EXCEPT ![p] = <<>>]
    /\ IF ipc # NoIpc /\ ipc.slot[p] = "SENT"
       THEN ipc' = [ipc EXCEPT !.slot[p] = "DO_NOT_SEND", !.sendTo = @ - 1]
            /\ UNCHANGED results
       ELSE UNCHANGED <<ipc, results>>

\* WD_EVENT_REMOTE_NODE_LOST: both sockets closed, the node LOST, and
\* node_lost_while_ipc_command: a SENT slot is no longer awaited, and the
\* command finishes OK when every remaining awaited node has replied.
NodeLost(p) ==
    /\ active' = [active EXCEPT ![p] = FALSE]
    /\ link' = [link EXCEPT ![p] = FALSE]
    /\ toNode' = [toNode EXCEPT ![p] = <<>>]
    /\ fromNode' = [fromNode EXCEPT ![p] = <<>>]
    /\ IF ipc # NoIpc /\ ipc.slot[p] = "SENT"
       THEN LET d == [ipc EXCEPT !.slot[p] = "DO_NOT_SEND", !.sendTo = @ - 1] IN
            IF d.sendTo <= d.replyFrom
            THEN WriteResult(ipc.k, "RESULT_OK") /\ ipc' = NoIpc
            ELSE ipc' = d /\ UNCHANGED results
       ELSE UNCHANGED <<ipc, results>>

\* service_ipc_commands: every SEND_ERROR slot of a reachable node is
\* written again, SENT and counted.
Resend(l) ==
    IF ipc = NoIpc THEN UNCHANGED <<ipc, toNode>>
    ELSE LET again == {p \in Remote : ipc.slot[p] = "SEND_ERROR" /\ active[p] /\ l[p]} IN
         /\ ipc' = [ipc EXCEPT !.slot = [p \in Remote |-> IF p \in again THEN "SENT" ELSE @[p]],
                               !.sendTo = @ + Cardinality(again)]
         /\ toNode' = [p \in Remote |-> IF p \in again
                          THEN Append(toNode[p], [id |-> ipc.k, fn |-> fns[ipc.k]])
                          ELSE toNode[p]]
\* service_unreachable_nodes: an active node no socket reaches (and no
\* connect is waiting for) is declared lost
ServiceUnreachableNodes(p) == active[p] /\ NodeLost(p)

\* The main loop for a node with no connected socket: service_lost_connections
\* connects at once (and service_ipc_commands then writes the SEND_ERROR
\* slots again), or leaves the connect in progress, or the connect fails and
\* service_unreachable_nodes declares an active node lost.
ServiceLostConnections(p) ==
    /\ ~link[p] /\ ~connecting[p]
    /\ \/ /\ link' = [link EXCEPT ![p] = TRUE]
          /\ Resend(link')
          /\ UNCHANGED <<results, active, connecting, fromNode>>
       \/ /\ connecting' = [connecting EXCEPT ![p] = TRUE]
          /\ UNCHANGED <<ipc, results, active, link, toNode, fromNode>>
       \/ ServiceUnreachableNodes(p) /\ UNCHANGED connecting
    /\ UNCHANGED <<allVars, issuedIpc, fns, startCmd, faults>>

\* update_successful_outgoing_cons: a connect in progress completes (nothing
\* is written again), or fails and is retried by the loop.
ConnectDone(p) ==
    /\ connecting[p]
    /\ connecting' = [connecting EXCEPT ![p] = FALSE]
    /\ link' \in {link, [link EXCEPT ![p] = TRUE]}
    /\ UNCHANGED <<allVars, ipc, issuedIpc, fns, results, active, toNode, fromNode,
                   startCmd, faults>>

\* A lost node that is connected again is added back (ADD_NODE).
NodeRejoin(p) ==
    /\ ~active[p] /\ link[p]
    /\ active' = [active EXCEPT ![p] = TRUE]
    /\ UNCHANGED <<allVars, ipc, issuedIpc, fns, results, link, connecting, toNode,
                   fromNode, startCmd, faults>>

\* Environment: the sockets to p fail; packets in flight are lost.
SocketFailure(p) ==
    /\ link[p] /\ faults < MaxFaults
    /\ link' = [link EXCEPT ![p] = FALSE]
    /\ toNode' = [toNode EXCEPT ![p] = <<>>]
    /\ fromNode' = [fromNode EXCEPT ![p] = <<>>]
    /\ faults' = faults + 1
    /\ UNCHANGED <<allVars, ipc, issuedIpc, fns, results, active, connecting, startCmd>>

\* Another remote node answers the packet at the head of its link.
OtherReply(p) ==
    /\ p \in Others /\ toNode[p] # <<>>
    /\ \E r \in {"ACCEPT", "REJECT"} :
         fromNode' = [fromNode EXCEPT ![p] = Append(@, [id |-> Head(toNode[p]).id, type |-> r])]
    /\ toNode' = [toNode EXCEPT ![p] = Tail(@)]
    /\ UNCHANGED <<allVars, ipc, issuedIpc, fns, results, active, link, connecting,
                   startCmd, faults>>

\* reply_with_minimal_message from R: written only while a socket is up
ReplyFromR(msgs) ==
    fromNode' = [fromNode EXCEPT ![R] = IF link[R] THEN @ \o msgs ELSE @]

\* R reads the packet at the head of its link:
\* process_remote_online_recovery_command for a START or an END.
RReceive ==
    /\ toNode[R] # <<>>
    /\ LET pkt == Head(toNode[R])
           i == started + 1
       IN IF pkt.fn = "START"
          THEN /\ RemoteStartRecovery
               /\ startCmd' = [startCmd EXCEPT ![i] = pkt.id]
               /\ ReplyFromR(IF answered'[i] > answered[i]
                             THEN <<[id |-> pkt.id, type |-> replyType'[i]]>> ELSE <<>>)
          ELSE /\ EndRecovery
               /\ ReplyFromR(<<[id |-> pkt.id, type |-> "ACCEPT"]>>)
               /\ UNCHANGED startCmd
    /\ toNode' = [toNode EXCEPT ![R] = Tail(@)]
    /\ UNCHANGED <<ipc, issuedIpc, fns, results, active, link, connecting, faults>>

\* R's 1-second timer: the STARTs it answers, in the order of its list.
RTimer ==
    /\ TimerEvents
    /\ LET done == SetToSortSeq({i \in timers : answered'[i] > answered[i]}, <)
       IN ReplyFromR([j \in DOMAIN done |->
                        [id |-> startCmd[done[j]], type |-> replyType'[done[j]]]])
    /\ UNCHANGED <<ipc, issuedIpc, fns, results, active, link, connecting, toNode,
                   startCmd, faults>>

IpcNext ==
    \/ (\E c \in Children : ChildNext(c)) /\ UNCHANGED <<recVars, ipcVars>>
    \/ RReceive \/ RTimer \/ ProcessIPCOnlineRecovery
    \/ \E p \in Remote :
         \/ ReceiveReply(p) \/ ServiceLostConnections(p) \/ ConnectDone(p)
         \/ NodeRejoin(p) \/ SocketFailure(p) \/ OtherReply(p)

\* R's main loop processes its timers at least once a second.
IpcSpec == IpcInit /\ [][IpcNext]_ipcAllVars /\ WF_ipcAllVars(RTimer)

-----------------------------------------------------------------------------
\* The IPC client gets at most one result frame for each command, however
\* replies, REJECTs and lost nodes interleave.
IpcResultOnce == \A k \in IpcIds : Len(results[k]) <= 1

\* A command stays in g_cluster.ipc_commands only while some node it was
\* written to has not replied: node losses, resends and replies never leave
\* a command that nothing can finish (it has no timeout).
IpcAwaitsReply == ipc # NoIpc => ipc.replyFrom < ipc.sendTo

\* The spec (4.7) says an online-recovery command is broadcast to all peers
\* and answered when all acknowledge.  So when the IPC client is told OK
\* for a START, R had received that START, unless R is lost by then.  The
\* code counts only the nodes the packet was written to
\* (send_command_packet_to_remote_nodes) and finishes ALL_REPLIED on their
\* replies (reply_is_received_for_pgpool_replicate_command).
RecoveryOkReachedActiveNodes ==
    [][\A k \in IpcIds :
          (results[k] = <<>> /\ results'[k] = <<"RESULT_OK">> /\ fns[k] = "START"
             /\ active'[R]) => \E i \in Ids : startCmd[i] = k]_ipcAllVars
=============================================================================
