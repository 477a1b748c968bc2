--------------------------- MODULE CommandTracker ---------------------------
(***************************************************************************)
(* The cluster-command tracker of one watchdog node (watchdog.c).  The     *)
(* node issues commands (STAND_FOR_COORDINATOR, REQ_INFO, ...) with an id  *)
(* taken from its nextCommandID counter and writes the packet to every     *)
(* peer, keeping a result slot per peer.  Every packet read from a peer    *)
(* goes through watchdog_internal_command_packet_processor, which finds    *)
(* the command by command id alone and counts the packet as that peer's    *)
(* reply.  Packets whose write failed are kept as SEND_ERROR slots and     *)
(* resent by service_internal_command, which the main loop calls only      *)
(* after service_lost_connections has completed a connect at once.         *)
(*                                                                         *)
(* The peers are abstracted to what reaches the tracker: each answers a    *)
(* command packet with an ACCEPT or REJECT (or with its INFO for the       *)
(* commands in InfoReplied), reusing the packet's id, and may broadcast    *)
(* its INFO on a state change with a fresh id from its own counter.        *)
(* Packets carry a history field "for", the command they really answer    *)
(* (0 for an unsolicited INFO); the code never reads it.                   *)
(***************************************************************************)
EXTENDS Naturals, FiniteSets, Sequences, SequencesExt

CONSTANTS
    Peer,         \* remote nodes, numbered in g_cluster.remoteNodes order
    CmdType,      \* packet types the node issues as cluster commands
    InfoReplied,  \* the command types a peer answers with its INFO
    MaxId,        \* bound on every node's nextCommandID
    MaxCmd,       \* bound on the number of commands issued
    Unsolicited,  \* whether peers broadcast their INFO on a state change
    AsyncConnect  \* whether an outbound connect may complete asynchronously

ASSUME Peer \subseteq Nat \ {0} /\ InfoReplied \subseteq CmdType
ASSUME MaxId \in Nat /\ MaxCmd \in Nat
ASSUME Unsolicited \in BOOLEAN /\ AsyncConnect \in BOOLEAN

VARIABLES
    nextId,    \* g_cluster.nextCommandID of this node
    peerId,    \* g_cluster.nextCommandID of each peer
    cmds,      \* g_cluster.clusterCommands
    issued,    \* number of commands issued; the history key of each one
    link,      \* is_node_reachable: a socket to the peer is connected
    toPeer,    \* packets written to a peer and not yet read by it
    fromPeer,  \* packets written by a peer and not yet read by this node
    finished   \* history: the commands finished, with their outcome

vars == <<nextId, peerId, cmds, issued, link, toPeer, fromPeer, finished>>

ALL == 0   \* sendToNode == NULL: the command goes to every peer
SlotState == {"INIT", "SEND_ERROR", "SENT", "REPLIED"}
ReplyType == {"ACCEPT", "REJECT", "INFO"}

\* g_cluster.nextCommandID = 1 at startup (line 718) on every node.
Init ==
    /\ nextId = 1
    /\ peerId = [p \in Peer |-> 1]
    /\ cmds = {}
    /\ issued = 0
    /\ link \in [Peer -> BOOLEAN]
    /\ toPeer = [p \in Peer |-> <<>>]
    /\ fromPeer = [p \in Peer |-> <<>>]
    /\ finished = {}

\* get_next_commandID: ++g_cluster.nextCommandID.
NextCommandID(id) == id + 1

\* send_message_to_node: the write succeeds when the client or the server
\* socket of the peer is connected.
SendMessageToNode(p) == link[p]

CommandPacket(c) == [id |-> c.id, k |-> c.k, type |-> c.type]

Outcome(c, status) == [k |-> c.k, status |-> status, sent |-> c.sent,
                       answered |-> c.answered]

\* issue_watchdog_internal_command: a slot per peer, SENT (and counted in
\* commandSendToCount) where the write succeeded, SEND_ERROR where it
\* failed.  The command is kept even when it was written nowhere.
IssueWatchdogInternalCommand(t, to) ==
    /\ issued < MaxCmd /\ nextId < MaxId
    /\ LET id == NextCommandID(nextId)
           wanted == IF to = ALL THEN Peer ELSE {to}
           ok == {p \in wanted : SendMessageToNode(p)}
           c == [k |-> issued + 1, id |-> id, type |-> t,
                 slot |-> [p \in Peer |-> IF p \in ok THEN "SENT"
                                          ELSE IF p \in wanted THEN "SEND_ERROR"
                                          ELSE "INIT"],
                 sendTo |-> Cardinality(ok), replyFrom |-> 0,
                 sent |-> ok, answered |-> {}, failed |-> wanted \ ok]
       IN /\ nextId' = id
          /\ issued' = issued + 1
          /\ cmds' = cmds \cup {c}
          /\ toPeer' = [p \in Peer |-> IF p \in ok
                                       THEN Append(toPeer[p], CommandPacket(c))
                                       ELSE toPeer[p]]
    /\ UNCHANGED <<peerId, link, fromPeer, finished>>

\* A packet this node sends that is not a command (a beacon, its own INFO,
\* ADD_NODE): set_next_commandID_in_message still consumes an id.
SendOtherMessage ==
    /\ nextId < MaxId
    /\ nextId' = NextCommandID(nextId)
    /\ UNCHANGED <<peerId, cmds, issued, link, toPeer, fromPeer, finished>>

\* A peer answers the command packet at the head of its link:
\* reply_with_minimal_message(ACCEPT or REJECT), or its INFO for a
\* REQ_INFO; both reuse the command id of the packet they answer.
PeerReply(p) ==
    /\ toPeer[p] # <<>>
    /\ LET pkt == Head(toPeer[p])
       IN \E r \in IF pkt.type \in InfoReplied THEN {"INFO"}
                   ELSE {"ACCEPT", "REJECT"} :
            fromPeer' = [fromPeer EXCEPT ![p] =
                           Append(@, [type |-> r, id |-> pkt.id, for |-> pkt.k])]
    /\ toPeer' = [toPeer EXCEPT ![p] = Tail(@)]
    /\ UNCHANGED <<nextId, peerId, cmds, issued, link, finished>>

\* A peer whose state changed broadcasts its INFO:
\* send_message_of_type(NULL, WD_INFO_MESSAGE, NULL), whose packet takes a
\* fresh id from the peer's own counter (get_mynode_info_message).
PeerBroadcastInfo(p) ==
    /\ Unsolicited /\ peerId[p] < MaxId
    /\ peerId' = [peerId EXCEPT ![p] = NextCommandID(@)]
    /\ fromPeer' = [fromPeer EXCEPT ![p] =
                      IF link[p] THEN Append(@, [type |-> "INFO", id |-> peerId'[p], for |-> 0])
                      ELSE @]
    /\ UNCHANGED <<nextId, cmds, issued, link, toPeer, finished>>

\* get_wd_command_from_reply: the command whose id equals the packet's.
GetWdCommandFromReply(pkt) == {c \in cmds : c.id = pkt.id}

\* The loop of watchdog_internal_command_packet_processor: it clears every
\* result slot up to and including the replier's, then marks the replier's
\* slot REPLIED.
ClearUpTo(slot, p) ==
    [q \in Peer |-> IF q = p THEN "REPLIED" ELSE IF q < p THEN "INIT" ELSE slot[q]]

\* commandReplyFromCount >= commandSendToCount
CommandFinished(c) == c.replyFrom >= c.sendTo

\* The packet counted as the reply of p to command c; a REJECT (or ERROR)
\* finishes the command at once, otherwise it finishes when as many
\* replies were counted as packets were written.
CountReply(c, p, pkt) ==
    LET d == [c EXCEPT !.slot = ClearUpTo(c.slot, p), !.replyFrom = @ + 1,
                       !.answered = IF pkt.for = c.k THEN @ \cup {p} ELSE @]
    IN IF CommandFinished(d) \/ pkt.type = "REJECT"
       THEN /\ cmds' = cmds \ {c}
            /\ finished' = finished \cup
                 {Outcome(d, IF pkt.type = "REJECT" THEN "NODE_REJECTED" ELSE "ALL_REPLIED")}
       ELSE /\ cmds' = (cmds \ {c}) \cup {d}
            /\ UNCHANGED finished

\* watchdog_state_machine, WD_EVENT_PACKET_RCV: an INFO goes to
\* standard_packet_processor (no tracker state), then every packet goes to
\* watchdog_internal_command_packet_processor, which ignores a packet whose
\* id matches no command in progress.
ReceivePacket(p) ==
    /\ fromPeer[p] # <<>>
    /\ LET pkt == Head(fromPeer[p])
       IN IF GetWdCommandFromReply(pkt) = {} THEN UNCHANGED <<cmds, finished>>
          ELSE CountReply(CHOOSE c \in GetWdCommandFromReply(pkt) : TRUE, p, pkt)
    /\ fromPeer' = [fromPeer EXCEPT ![p] = Tail(@)]
    /\ UNCHANGED <<nextId, peerId, issued, link, toPeer>>

\* check_for_current_command_timeout: every command past its timeout
\* finishes with COMMAND_FINISHED_TIMEOUT and is deleted.
CheckForCurrentCommandTimeout ==
    \E expired \in SUBSET cmds \ {{}} :
        /\ cmds' = cmds \ expired
        /\ finished' = finished \cup {Outcome(c, "TIMEOUT") : c \in expired}
        /\ UNCHANGED <<nextId, peerId, issued, link, toPeer, fromPeer>>

\* The SEND_ERROR slots of command c that service_internal_command resends
\* when the connection state is l.
ResendTo(c, l) == {p \in Peer : c.slot[p] = "SEND_ERROR" /\ l[p]}

\* A command after service_internal_command: the resent slots are SENT and
\* counted in commandSendToCount.
Resent(c, l) ==
    [c EXCEPT !.slot = [q \in Peer |-> IF q \in ResendTo(c, l) THEN "SENT" ELSE @[q]],
              !.sendTo = @ + Cardinality(ResendTo(c, l)),
              !.sent = @ \cup ResendTo(c, l),
              !.failed = @ \ ResendTo(c, l)]

\* service_internal_command: for every command, in list (issue) order,
\* write the packet again to each reachable peer whose slot is SEND_ERROR.
ServiceInternalCommand(l) ==
    /\ cmds' = {Resent(c, l) : c \in cmds}
    /\ toPeer' = [p \in Peer |->
                    LET s == SetToSortSeq({c \in cmds : p \in ResendTo(c, l)},
                                          LAMBDA a, b : a.k < b.k)
                    IN toPeer[p] \o [i \in DOMAIN s |-> CommandPacket(s[i])]]

\* service_lost_connections: connect_to_node completes at once for the
\* peers in up; it returns true, and the main loop then calls
\* service_internal_command.
SyncReconnect ==
    \E up \in SUBSET {p \in Peer : ~link[p]} \ {{}} :
        /\ link' = [p \in Peer |-> link[p] \/ p \in up]
        /\ ServiceInternalCommand(link')
        /\ UNCHANGED <<nextId, peerId, issued, fromPeer, finished>>

\* update_successful_outgoing_cons (or accept_incomming_connections): a
\* connection completes later in the loop; nothing is resent.
AsyncReconnect(p) ==
    /\ AsyncConnect /\ ~link[p]
    /\ link' = [link EXCEPT ![p] = TRUE]
    /\ UNCHANGED <<nextId, peerId, cmds, issued, toPeer, fromPeer, finished>>

\* Environment: both sockets to the peer fail; packets in flight are lost.
LinkLost(p) ==
    /\ link[p]
    /\ link' = [link EXCEPT ![p] = FALSE]
    /\ toPeer' = [toPeer EXCEPT ![p] = <<>>]
    /\ fromPeer' = [fromPeer EXCEPT ![p] = <<>>]
    /\ UNCHANGED <<nextId, peerId, cmds, issued, finished>>

Next ==
    \/ \E t \in CmdType, to \in Peer \cup {ALL} : IssueWatchdogInternalCommand(t, to)
    \/ SendOtherMessage
    \/ CheckForCurrentCommandTimeout
    \/ SyncReconnect
    \/ \E p \in Peer :
         \/ PeerReply(p) \/ PeerBroadcastInfo(p) \/ ReceivePacket(p)
         \/ AsyncReconnect(p) \/ LinkLost(p)

Spec == Init /\ [][Next]_vars

-----------------------------------------------------------------------------

\* A command whose packet could not be written to a peer still owes it
\* that packet only while the peer is unreachable: once the connection is
\* restored the SEND_ERROR slot is resent (spec: "on reachability
\* restored: resend queued SendError slots").
ResentOnReconnect ==
    \A c \in cmds : \A p \in c.failed : ~link[p]

=============================================================================
