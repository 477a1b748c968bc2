# TLA+ models of the pgpool-II watchdog

This directory holds TLA+ models of the pgpool-II watchdog. The model follows
`src/src/watchdog/watchdog.c`, the process that lets several pgpool-II nodes
agree on one coordinator (the "master"). The coordinator holds the delegate
(virtual) IP and decides failovers. The repository also contains
`src/src/protocol/child.c`, the pgpool-II child processes that serve
clients, and `src/src/include/pool.h`. The models cover the children's
shared connection counter and how the watchdog's online-recovery handler
waits on it.

## The system

Each pgpool-II node runs one watchdog process. `watchdog_main` is a
single-threaded loop that does the following on each iteration:

- `select()`s for at most one second on its sockets;
- handles new connections, completed connects and packets (`read_sockets`);
- fires the state timer (`g_timeout_sec`) and the per-command timeouts
  (`check_for_current_command_timeout`);
- declares unreachable nodes lost (`service_unreachable_nodes`);
- if it is the coordinator, recomputes the quorum (`update_quorum_status`).

Every event goes through `watchdog_state_machine`. Its prologue handles:

- a lost node, which closes both of the node's sockets;
- INFO packets;
- INFORM_I_AM_GOING_DOWN;
- replies to cluster commands (`watchdog_internal_command_packet_processor`).

Everything else is dispatched to the handler of the current state:

| State | Handler |
|---|---|
| LOADING | `watchdog_state_machine_loading` |
| JOINING | `watchdog_state_machine_joining` |
| INITIALIZING | `watchdog_state_machine_initializing` |
| STAND_FOR_COORDINATOR | `watchdog_state_machine_standForCord` |
| COORDINATOR | `watchdog_state_machine_coordinator` |
| PARTICIPATE_IN_ELECTION | `watchdog_state_machine_voting` |
| STANDBY | `watchdog_state_machine_standby` |

`set_state` runs the new state's STATE_CHANGED branch, then broadcasts INFO.

Nodes talk over TCP. A cluster command is a packet with a fresh command id sent
to every active node (`issue_watchdog_internal_command`). It finishes in one of
three ways:

- when every node it was sent to has replied;
- at once on a REJECT or ERROR;
- when its timeout expires.

A coordinator with enough standbys has the quorum and escalates
(`start_escalated_node`: it brings up the delegate IP). When two coordinators
meet, `handle_split_brain` decides which one keeps the role.

Each pgpool-II node also runs `num_init_children` child processes
(`do_child` in child.c). Each accepts one client at a time. Together they
keep `Req_info->conn_counter` in shared memory: a child counts up after
`accept()` and counts down when the connection ends. A child refuses the
client when the count exceeds `num_init_children - reserved_connections`.
Online recovery of a backend is run by one pgpool-II node. It sends
START_RECOVERY to the others, whose watchdogs set `*InRecovery` (which
stops their children accepting). They answer ACCEPT once the counter
reaches 0, or when `recovery_timeout` expires. END_RECOVERY lifts the
block.

Escalation is done by helper processes. `start_escalated_node` forks the
escalation process, which brings the delegate IP up;
`resign_from_escalated_node` forks the de-escalation process, which takes it
down. Each first waits, in `sleep(1)` steps of at most
`MAX_SECS_ESC_PROC_EXIT_WAIT` (5) seconds, for the opposite helper to exit,
and then forks regardless. A helper's exit raises SIGCHLD, and
`wd_child_signal_handler` reaps it and clears its pid. The interface monitor
reports removed addresses and failed links: a coordinator that holds the VIP
and no longer finds it brings it up again (`wd_IP_up`), and a node whose
monitored interfaces are all down moves to IN_NW_TROUBLE, resigns and exits.

## Modules

| Module | Models |
|---|---|
| `WdQuorum` | The quorum arithmetic as operators: `MinRemoteForQuorum` (get_mimimum_remote_nodes_required_for_quorum), `QuorumStatus` (update_quorum_status) and `MinVotes` (get_minimum_votes_to_resolve_consensus). |
| `MC_WdQuorum` | Moves a coordinator's standby count up and down for every cluster of up to 17 nodes. It checks the WdQuorum operators against a majority reference. |
| `Watchdog` | The cluster of watchdog processes: every node's state machine, its cluster commands and its sockets. |
| `MC_Watchdog` | Node sets, priorities and the channel bound used by the Watchdog configurations. |
| `FailoverConsensus` | The coordinator's failover objects: `process_IPC_failover_command`, forwarding to the master, `process_remote_failover_command_on_coordinator`, `compute_failover_consensus`, `add_failover`, `get_failover_object`, `service_expired_failovers` and `clear_all_failovers`. |
| `MC_FailoverConsensus` | Three nodes (as symmetric model values), two backends and the node lists a request may carry. Also the refinement mapping to `FailoverVoting`. |
| `FailoverVoting` | The abstract promise of the failover consensus: while a node leads, a proposal is carried out on votes only with `MinSupport` distinct supporters, and that support is used up. |
| `CommandTracker` | One node's cluster-command tracker: global command ids, per-peer result slots, reply matching, the reply loop, timeouts, SEND_ERROR slots and their resend, links that fail and reconnect. |
| `MC_CommandTracker` | Peer sets of two and three, and the command types. |
| `Child` | The children's loop of `do_child` and `conn_counter`: accept, count up, the limit test, backend connection, session, error recovery, restart requests, the exits and `die`. |
| `MC_Child` | Two children. |
| `OnlineRecovery` | Extends `Child` with the watchdog's START_RECOVERY / END_RECOVERY handler and its 1-second command timer. |
| `IpcRecovery` | Extends `OnlineRecovery`: the local IPC server's online-recovery command sent to a remote node R that runs `OnlineRecovery`, and to other remote nodes that answer ACCEPT or REJECT; sockets that fail, reconnect, or end in the node being lost. |
| `MC_IpcRecovery` | R with one child, and one other node (model values). |
| `Escalation` | One node's escalation manager: `start_escalated_node`, `resign_from_escalated_node`, the helper processes, SIGCHLD and `wd_child_signal_handler`, the delegate IP on the host, and the interface monitor's NW_IP_IS_REMOVED and NW_LINK_IS_INACTIVE events. Its constants are given in the `.cfg` files directly. |

### How Watchdog corresponds to the code

State:

- `wd[n]` is node n's `g_cluster`, with these fields:
  - `st`: the node's own state;
  - `master`: `clusterMasterInfo.masterNode`;
  - `standby`: the coordinator's standby list;
  - `quorum`: `quorum_status`;
  - `esc`: `escalated`;
  - `timer`: the seconds left of `g_timeout_sec`, or -1 when no timer is set;
  - `view[m]`: `wdNode->state`, what n knows of m's state;
  - `conn` and `pend`: connected and connecting sockets;
  - `cmds`: `clusterCommands`, the cluster commands in progress;
  - `rcv`: on a standby, the seconds since `last_rcv_time` of its master
    (capped at 20), which the timed runs count with `Tick`.
- `isolated` is the set of nodes whose network is down, and `isolations`
  counts the failures so far (bounded by `MaxIsolations`).
- `chan[<<n, m>>]` holds the packets written by n and not yet read by m. Each
  is a FIFO channel, as TCP guarantees. A packet carries the sender's node
  info (state, escalation, quorum, standby count) as a record, not as JSON.

Handlers:

- Each C handler is an operator from an "effect" record to an effect. The
  record holds the node's state and the packets written so far.
- The nesting of the C calls is kept: `SetState` calls `OnStateChanged`, which
  calls `SendClusterCommand`, and so on.
- An action of `Next` is one whole event of the loop, and `Commit` applies its
  effect.

Each action and the code it models:

| Action | Code |
|---|---|
| `Start` | `watchdog_main` up to `set_state(WD_LOADING)` |
| `ConnectionEstablished` / `ConnectFailed` | `update_successful_outgoing_cons` |
| `Receive` | `read_sockets`, including the unidentified ADD_NODE socket path |
| `SocketClosed` | EOF in `read_packet_of_type` |
| `Timeout` | the `g_timeout_sec` check of `watchdog_main` |
| `CommandTimeout` | `check_for_current_command_timeout` |
| `UpdateQuorum` | `update_quorum_status` at the loop's end |
| `ServiceUnreachableNodes` | `service_unreachable_nodes`, the no-socket branch |
| `StandbyTail` | the last_rcv_time tail of the standby handler, run after every event it handles: REQ_INFO to the master after 10 s of silence, JOINING after 20 s |
| `MasterSilent` | without the clock: an event reaching the standby tail after 10 or 20 s of silence |
| `NodeStatusDead` | `process_IPC_nodeStatusChange_command` → `fire_node_status_event`: the lifecheck reports a remote node DEAD (REMOTE_NODE_LOST) |
| `LocalNodeLost` | the lifecheck reports the local node DEAD: LOCAL_NODE_LOST, `set_state(WD_LOST)`, the FATAL exit of `watchdog_state_machine_nw_error` |
| `NwLinkInactive` | NW_LINK_IS_INACTIVE with every monitored interface down: `set_state(WD_IN_NW_TROUBLE)` and the same FATAL exit |
| `SocketError` | a failed write (`send_message_to_connection`) closes the socket to a peer whose link is down |
| `ServiceLostConnections` | `service_lost_connections`: a peer that no socket reaches is dialled again |
| `Shutdown` | `wd_child_exit` → `wd_system_will_go_down` |
| `Isolate` / `Heal` | the environment: a node's network fails (every packet on its links is lost) and comes back |
| `Tick` | one second passing |

Time:

- With `Timed = TRUE`, time is a one-second clock. `Tick` may happen only when
  every event the loop has at hand is handled (`Settled`): a packet is read
  within the second it is sent. Timers and command timeouts count down on each
  `Tick` and fire at 0.
- With `Timed = FALSE`, any armed timer may fire at any moment. This covers
  every ordering of timeouts against packets and connects.

Command ids:

- A new command takes the smallest id that no command or in-flight packet of
  the node uses.
- This models the intended matching of replies. The code matches replies by id
  alone, which is a hazard left for a later stage.
- The bound `MaxCmd` is on the ids in use at once. A step that would need more
  is not taken.

A node's network failure is the environment step `Isolate`. Packets that
were in flight on its links are lost, and packets written to them later are
dropped. Each side sees the failure on its own, when a write fails
(`SocketError`), when the lifecheck reports the peer dead
(`NodeStatusDead`), or, on a standby, when its master has been silent for
20 s (`StandbyTail`). It then declares the peer lost
(`ServiceUnreachableNodes`) and dials it again (`ServiceLostConnections`).
The redial is not held back by the code's 10 s back-off, so it may come at
any time. The isolated node itself learns of the failure from its
interface monitor (`NwLinkInactive`) or its lifecheck (`LocalNodeLost`),
and exits.

The lifecheck (pgpool's heartbeat or query method) is not in this
repository; it reaches the watchdog only through the node-status IPC
command. When it reports is its own timing, so `NodeStatusDead` and
`LocalNodeLost` may happen at any moment the report would be true: a
remote node is unreachable or down, the local node's network is down. The
constant `Lifecheck` enables them. It is FALSE in watchdog_start3 and
watchdog_live2, which have no network failures and in which a DEAD report
could only follow a shutdown, and TRUE in watchdog_async2 and
watchdog_split2.

The split-brain tie-break on `current_state_time` is a nondeterministic choice
(`older`).

### How FailoverConsensus corresponds to the code

State:

- `coord` is the node that is COORDINATOR and its own master.
- `standby` is its standby list, which sets its quorum.
- `failovers[n]` is node n's `wdCurrentFailovers`. Each object keeps the
  following:
  - `kind`: the request kind;
  - `list`: the node list of the first request;
  - `conf`: whether the first request carried REQ_DETAIL_CONFIRMED;
  - `count`: `request_count`;
  - `reqs`: `requestingNodes`.
- `msgs` holds the WD_IPC_FAILOVER_COMMAND packets that standbys have
  forwarded and that are not yet read.
- `votes` and `decided` are history variables. They record each vote that
  `add_failover` counted, and each failover allowed to proceed, with the
  coordinator term it happened in.

Actions:

| Action | Code |
|---|---|
| `Submit` | `process_IPC_failover_command`: decide on the master, forward on a standby |
| `Deliver` | `process_remote_failover_command_on_coordinator` |
| `Expire` | `service_expired_failovers`, including the resignation for our own NODE_DOWN request on a quarantined primary (the main process's quarantine state is a choice) |
| `Elect` / `Depose` | the environment: the election of the Watchdog module, and `set_state` leaving COORDINATOR (`clear_standby_nodes_list`, `clear_all_failovers`) |
| `StandbyJoin` / `StandbyLeft` | `standby_node_join_cluster` / `standby_node_left_cluster` |

No event of this module is timed apart from expiry. So an object may expire
at any moment, which covers every order of votes and expiry.

### How CommandTracker corresponds to the code

State:

- `nextId` is `g_cluster.nextCommandID`, which every packet the node sends
  advances (`set_next_commandID_in_message`).
- `peerId[p]` is peer p's own counter.
- `cmds` is `g_cluster.clusterCommands`. Each command has:
  - `id` and `type`;
  - `slot[p]`: `nodeResults[p].cmdState`;
  - `sendTo` / `replyFrom`: `commandSendToCount` / `commandReplyFromCount`;
  - the history fields `sent`, `answered` and `failed`.
- `link[p]` says whether a socket to p is connected.
- `toPeer[p]` and `fromPeer[p]` are the packets in flight.
- `finished` records the outcomes.

Actions:

| Action | Code |
|---|---|
| `IssueWatchdogInternalCommand` | `issue_watchdog_internal_command`: SENT where the write succeeds, SEND_ERROR where it fails |
| `SendOtherMessage` | any other packet, which still takes an id |
| `PeerReply` / `PeerBroadcastInfo` | a peer's `reply_with_minimal_message` (the command's id), or its INFO broadcast (an id from its own counter) |
| `ReceivePacket` | `watchdog_internal_command_packet_processor`, with `get_wd_command_from_reply` (by id alone) and the loop that clears slots up to the replier's |
| `CheckForCurrentCommandTimeout` | `check_for_current_command_timeout` |
| `SyncReconnect` | `service_lost_connections` with a connect that completes at once, then `service_internal_command` |
| `AsyncReconnect` | `update_successful_outgoing_cons`: the link is back, nothing is resent |
| `LinkLost` | the environment: both sockets fail, and packets in flight are lost |

The constants `Unsolicited` and `AsyncConnect` turn the INFO broadcasts and
the asynchronous reconnects on and off.

### How Child and OnlineRecovery correspond to the code

`pc[c]` is where child c is in `do_child`'s loop. `accepted`, `connected` and
`conns` are its static `accepted`, `connected` and `connections_count`.
`counter` is `Req_info->conn_counter` and `inRecovery` is `*InRecovery`.
Each action is one stretch of the loop between points where another child
or the watchdog can act:

| Action | Code |
|---|---|
| `LoopTop` | `check_stop_request`, `check_restart_request` (`child_exit`), `accepted = 0` |
| `Accept` | `wait_for_new_connections`: `while (*InRecovery == 1) pause(); accept()` |
| `LifeTimeExpired` | the `child_life_time` exit on a select timeout |
| `ConnectionCountUp` | `connection_count_up()` |
| `CheckConnectionLimit` | the limit test on the count read back, and `accepted = 1` |
| `GetBackendConnection` | `get_connection` / `get_backend_connection`: a cancel request (no count down), an error, or a session |
| `SessionEnd` / `CloseConnection` | the end of the query loop, `accepted = 0`, `connection_count_down()`, and the `child_max_connections` exit |
| `ErrorRecovery` (used by the above) | the `sigsetjmp` block: count down if `accepted`, which stays set, then the `child_max_connections` exit |
| `Die` | `die` on SIGINT/SIGQUIT, and `check_stop_request` |

`ExitAndRestart` is `child_exit` with its callback `child_will_go_down`.
pgpool-II then forks a fresh child, which starts at `LoopTop`.

OnlineRecovery adds `started` (the START_RECOVERY requests received), `timers`
(`g_cluster.wd_timer_commands`) and the history `answered`:

| Action | Code |
|---|---|
| `RemoteStartRecovery` | START_RECOVERY in `process_remote_online_recovery_command` |
| `RemoteEndRecovery` | END_RECOVERY in the same function |
| `TimerEvents` | `process_wd_func_commands_for_timer_events` with `process_wd_command_timer_event` |

`ensure_conn_counter_validity` is declared in pool.h, but its body is not in
this repository. It is assumed to return the number of connections the
children actually hold (`EnsureConnCounterValidity`).

### How IpcRecovery corresponds to the code

The state is `ipc` (the one command in `g_cluster.ipc_commands`, with its
per-node slots, `commandSendToCount` and `commandReplyFromCount`),
`issuedIpc` and `fns` (the commands read, with START or END), `results`
(the result frames written to the IPC client), `active` (`is_node_active`),
`link` (`is_node_reachable`), `connecting` (a connect in progress),
`toNode`/`fromNode` (packets in flight on each node's sockets), `startCmd`
(the command id of each START R received) and `faults`.

| Action | Code |
|---|---|
| `ProcessIPCOnlineRecovery` | `read_ipc_socket_and_process` with `process_IPC_online_recovery` and `send_command_packet_to_remote_nodes` (`SendSlot`) |
| `ReceiveReply(p)` | the ACCEPT/REJECT/ERROR branch of `wd_commands_packet_processor` with `reply_is_received_for_pgpool_replicate_command` and `cleanUpIPCCommand` |
| `ServiceLostConnections(p)` | `service_lost_connections`, then `service_ipc_commands` after a synchronous connect (`Resend`), or a connect left in progress, or a failed connect followed by `ServiceUnreachableNodes(p)` |
| `ServiceUnreachableNodes(p)` | `service_unreachable_nodes` declaring the node lost (`NodeLost`: the REMOTE_NODE_LOST prologue and `wd_command_processor_for_node_lost_event`) |
| `ConnectDone(p)` | `update_successful_outgoing_cons`: no resend follows |
| `NodeRejoin(p)` | the INFO message that sets a lost node's state again |
| `RReceive`, `RTimer` | R's `process_remote_online_recovery_command` and timer (`OnlineRecovery`), with its replies written back (`reply_with_minimal_message`) |
| `SocketFailure(p)`, `OtherReply(p)` | the environment: a socket fails and loses what is in flight; another node answers |

`IpcNext` interleaves these as the main loop of `watchdog_main` does; the
children of R step as in `Child`.

### How Escalation corresponds to the code

The state is `escalated` (`localNode->escalated`), `holdingVip`
(`clusterMasterInfo.holding_vip`), `escPid` and `deEscPid`
(`escalation_pid`, `de_escalation_pid`), `sigchld` (`sigchld_request`),
`helper` (the forked processes, numbered by the call that forked them),
`vip` (the address is on the host), `linkUp`, `nwEvent` (netlink events not
read yet), `pc` (inside a wait loop, in the main loop, or exited) and
`waitSecs` (the loop's `wait_secs`). Time is counted in the watchdog's
one-second sleeps: a helper runs at most `HelperSecs` of them and may exit
earlier.

| Action | Code |
|---|---|
| `Escalate` | `start_escalated_node` up to its wait loop; it returns at once when already escalated |
| `WaitSleep` | one pass of the wait loop: reap if SIGCHLD was seen, `sleep(1)` |
| `ForkEscalation` | the rest of `start_escalated_node`: fork; only a successful fork sets `escalated` and `holding_vip` |
| `Resign` | `resign_from_escalated_node` up to its wait loop |
| `ForkDeEscalation` | the rest of it: fork the de-escalation, clear `holding_vip` and `escalated` |
| `CheckSignals` | `check_signals` with `wd_child_signal_handler` |
| `Tick` | a `select()` timeout of the main loop |
| `NwEventHandler` | `read_interface_change_event` and the NW_IP_IS_REMOVED / NW_LINK_IS_INACTIVE branches of `watchdog_state_machine` and of the coordinator's handler; with the links down, `set_state(WD_IN_NW_TROUBLE)` resigns and the nw-error handler exits FATAL |
| `HelperExit` | a helper sets or removes the VIP and exits (its body is not in this repository) |
| `VipRemoved`, `LinkDown` | the environment: someone deletes the address, a cable is pulled |

`Escalate` and `Resign` stand for their callers (quorum found or lost, the
coordinator state left), which may come at any time.

### The refinement of FailoverVoting

`MC_FailoverConsensus` instantiates `FailoverVoting` with the following
mapping:

- `leader <- coord`;
- `support[p]` is the union of the requesting nodes of the coordinator's
  objects with p's kind and node set;
- `done <-` the `decided` history.

`VotingSpec` is checked as a property of the failover_consensus run. So every
step of the code's consensus is a step of the abstract one, or leaves it
unchanged:

- a counted vote short of the minimum is `Support`;
- a vote that reaches it is `Decide`, which uses the support up;
- expiry is `Forget`;
- leaving the coordinator state is `StepDown`.

## Runs

| Run | Configuration | Checks | Shows |
|---|---|---|---|
| quorum | `MC_WdQuorum.cfg`, up to 16 remote nodes | QuorumIsMajority, VotesAgreeWithQuorum | `update_quorum_status` is the majority rule. An exact half counts only with `enable_consensus_with_half_votes` or an even node count, i.e. an odd remote count. The failover vote threshold agrees with it. |
| watchdog_start3 | `MC_Watchdog_timed.cfg`: 3 nodes, clock, each started at any time | TypeOK, MasterIsNotPreempted | A declared master keeps the role: a node that starts after it joins as standby instead of taking over, in every start-up order of three nodes. |
| watchdog_async2 | 2 nodes, any timer order, node 2 may shut down | AtMostOneEscalated, StandbyHasMaster | Even when both nodes become coordinator in a split brain, at most one is ever escalated. No standby is left with no master, which is the NULL dereference at watchdog.c:6255. |
| watchdog_split2 | 2 nodes, clock, either node's network fails once and heals | AtMostOneEscalated, StandbyHasMaster | A standby that loses its coordinator to a network failure cannot get the quorum alone (one remote node, no half votes). So the old coordinator stays the only escalated node, and after the network heals the cluster re-forms without a standby left masterless. |
| failover_consensus | `MC_FailoverConsensus.cfg`: 3 nodes, 2 requests, 2 terms, both kinds | TypeOK, ConsensusSafety, VotingSpec | The consensus implements `FailoverVoting`. Every failover that proceeds on votes had at least `get_minimum_votes_to_resolve_consensus` distinct nodes asking the same coordinator, in the same term, for the same kind of failover of the same backends. This holds however requests are forwarded, however objects expire and however coordinators change. |
| watchdog_live2 | 2 nodes started together, clock, weak fairness | CoordinatorHasHighestPriority, EventuallyStable | The cluster settles: one escalated coordinator, the other its standby, and it stays so. No node other than the one of highest priority is ever coordinator. |
| recovery | `MC_IpcRecovery.cfg`: R with 1 child (child_max_connections 2, every exit path), `recovery_timeout > 0`, one other node, 2 IPC commands, 2 socket failures | AnsweredOnce, IpcResultOnce, IpcAwaitsReply, RecoveryAnswered | Every START_RECOVERY R receives is answered exactly once, including when END_RECOVERY comes while a timer is pending and a second START follows; while a client stays connected, the timer answers when `recovery_timeout` expires. The IPC client gets at most one result per command, and a command stays listed only while a reply is awaited, through replies, REJECTs, resends, node losses and rejoins. 1,040,717 states, about a minute. |
| ipc_ok (violation) | `MC_IpcRecovery_ok.cfg`: the recovery configuration with one socket failure | RecoveryOkReachedActiveNodes | The IPC client is told OK for a START that R, still active, never received. See the findings. |
| child_restart (violation) | `MC_Child_restart.cfg`: 2 children, restart requests | CounterNeverUnder | `conn_counter` counts one connection down twice. See the findings. |
| cmd_wipe3 (violation) | `MC_CommandTracker_wipe3.cfg`: 3 peers, synchronous reconnects | ResentOnReconnect | A failed packet is never resent. See the findings. |
| escalation | `MC_Escalation.cfg`: helpers finish within 4 s, 3 start/resign calls, the escalation fork may fail, 2 environment faults | VipMatchesEscalation | Whenever no helper runs, no netlink event waits and the watchdog is not in a wait loop, the host holds the delegate IP exactly when the node is escalated. The 5 s waits order the helpers, and a VIP removed by a late de-escalation is put back by the IP-removed handler. |
| escalation_slow (violation) | `MC_Escalation_slow.cfg`: helpers may run 5 s | VipMatchesEscalation | A late escalation process brings the VIP up after the node has resigned. See the findings. |

MasterIsNotPreempted does not hold without the clock, and this is by design.
Both nodes' timers can expire before their connects complete. Then both
declare themselves coordinator, and `handle_split_brain` makes one of them
resign. That is why the property is checked only on the timed runs.
CoordinatorHasHighestPriority holds only when the nodes start together: a
node of higher priority that starts after the election joins the
coordinator as its standby (which is what MasterIsNotPreempted requires).

Each property has a mutant in `PROJECT.json`: a plausible bug in the mapped
code (a dropped guard, an inverted comparison, a missing JOIN) that the
property's own run catches.

## Findings

1. **A late escalation brings the VIP back after resigning**
   (escalation_slow, a spec/code divergence). `resign_from_escalated_node`
   waits at most 5 s for a running escalation process and then forks the
   de-escalation anyway, clearing `escalated` and `holding_vip`
   (watchdog.c:6073). In the trace the escalation process is forked, the
   node resigns at once, waits its five sleeps and forks the de-escalation.
   The de-escalation removes the VIP, and then the escalation process, still
   running, brings it up. The node now holds the delegate IP while it
   considers itself not escalated. The IP-removed handler cannot notice,
   because `holding_vip` is false, and a new coordinator elsewhere will bring
   up the same address. The spec promises that only the escalated
   coordinator holds the VIP; the code keeps that promise only while the
   escalation commands finish within 5 s. With helpers bounded by 4 s (the
   escalation run) it holds.
2. **The connection counter is counted down twice** (child_restart, a code
   bug). A child whose client connection fails with an error goes through
   the `sigsetjmp` block of `do_child`. The block counts the connection down
   but leaves `accepted = 1`. At the top of the loop, `check_restart_request`
   (set in every child by a failover or failback) and `check_stop_request`
   run before `accepted = 0`. `child_exit`'s callback `child_will_go_down`
   therefore counts the same connection down again (child.c:305 and 1286).
   The comment at child.c:1560 describes exactly this, but the `> 0` guard
   only keeps the counter from going negative. The trace has child 1 fail and
   child 2 admit a client, and the counter ends at 0 with child 2 connected.
   The same happens through the `child_max_connections` exit inside the
   `sigsetjmp` block (child.c:268). An under-count lets more than
   `num_init_children - reserved_connections` clients in, and lets
   START_RECOVERY be accepted while sessions are open.
3. **SEND_ERROR slots wiped by a later reply** (cmd_wipe3, a code bug). A
   command to three peers fails to reach peer 1. While looking for the
   replier's slot, the reply loop of
   `watchdog_internal_command_packet_processor` calls
   `clear_command_node_result` on every slot before it (watchdog.c:4365).
   Peer 2's ACCEPT therefore resets peer 1's SEND_ERROR slot to INIT. When
   peer 1 reconnects, `service_internal_command` finds no SEND_ERROR slot and
   never sends it the command. This breaks the spec's "on reachability
   restored: resend queued SendError slots".
4. **An online recovery told OK without reaching a node** (ipc_ok, a
   divergence from the spec, which says the command is broadcast to all
   peers and answered when all acknowledge). `send_command_packet_to_remote_nodes`
   marks a node whose socket is down SEND_ERROR and does not count it; the
   command is ALL_REPLIED once the counted nodes reply (watchdog.c:6615).
   The trace: `SocketFailure(r)`, `ProcessIPCOnlineRecovery` (START),
   `OtherReply(q)` with ACCEPT, `ReceiveReply(q)`. The client gets
   RESULT_OK while R is active (it is reconnecting, not lost) and never saw
   the START, so R's children keep accepting clients during the recovery.
   `RecoveryOkReachedActiveNodes` states the spec's promise: an OK for a
   START while R stays active means R received that START.

The models also contain the following disagreements. Each is visible in a
short behaviour of the modules, but no run of this directory checks it:

- **Consensus with one voter** (a gap in the spec). The spec says that no
  failover request proceeds with fewer than min_votes requestors, with
  exceptions only for Confirmed requests and `failover_require_consensus =
  off`. It also says duplicate votes count when
  `allow_multiple_failover_requests_from_node` is on, and the code counts
  them (watchdog.c:2445). So, in `FailoverConsensus` with `AllowMultiple =
  TRUE`, one node asking twice in a three-node cluster makes a NODE_DOWN
  failover proceed. The safety rule lacks this exception.
- **De-escalation fork failure.** If `fork_plunging_process` fails,
  `resign_from_escalated_node` still clears `escalated` and `holding_vip`
  (watchdog.c:6077), and the VIP stays up. `Escalation` forks the
  de-escalation unconditionally, so it does not show this.

- **Cancel requests leak a count.** `get_backend_connection` returns NULL for
  a cancel request, and `do_child` continues the loop without
  `connection_count_down` (child.c:371). The comment at child.c:1560 says
  the count is taken down. In `Child` this is `CancelRequest`, and the
  counter stays one above the connections held.
- **Recovery accepted while a client is admitted.** A child that passed the
  `*InRecovery` test (child.c:1992) before START_RECOVERY counts up after the
  watchdog read `conn_counter == 0` (watchdog.c:6520). It then serves its
  client during the recovery: `Accept`, `RemoteStartRecovery`,
  `ConnectionCountUp`, `CheckConnectionLimit`.
- **INFO broadcasts taken for replies.** With `Unsolicited`, a peer's INFO
  whose id, drawn from its own counter, equals a pending command's id is
  counted as its reply (`get_wd_command_from_reply` matches by id alone,
  watchdog.c:3544). A command can then finish ALL_REPLIED without a genuine
  reply.
- **No resend after an asynchronous reconnect.** With `AsyncConnect`, a link
  restored by `update_successful_outgoing_cons` is not followed by
  `service_internal_command`, which the main loop calls only when
  `service_lost_connections` returns true (watchdog.c:1193).
- **An IPC command that never finishes.** IPC commands have no timeout
  (watchdog.c:2678). A START lost with a socket failure and followed by a
  connect that completes later (`ConnectDone`), or a synchronous reconnect
  after the slot was already SENT, is never written again and the node is
  never declared lost. With weak fairness on every step but socket
  failures, TLC finds `ipc # NoIpc ~> ipc = NoIpc` violated in a state with
  both links up and nothing in flight: the pgpool-II that asked waits
  forever.

## Bounds and why they are enough

- **Nodes.** Three nodes give every priority ordering of a candidate, a voter
  and a third node. Two nodes give a split brain and a shutdown; three
  nodes started at any time give every start-up order (watchdog_start3). The quorum rules are exercised separately, for every cluster
  size up to 17.
- **Channels.** `MaxChan` (2, or 1 for the untimed run) bounds the packets on a
  link. An election round puts at most one command and one INFO on a link at a
  time, so the bound cuts only repeated resends.
- **Command ids.** `MaxCmd = 3` covers a node that stands for coordinator,
  participates and stands again within one second.
- **Network failures.** `MaxIsolations = 1` in the 2-node run. One failure
  of either node, with the heal and the re-forming after it, is the whole
  story there. Two failures pass too, but take over two minutes. Whether a
  3-node cluster can escalate a second coordinator before the isolated one
  exits depends on when the lifecheck reports, which the code does not
  bound, so no run asks it.
- **Beacon silence.** `rcv` counts to 20, the JOINING threshold; the
  timed 2-node run reaches it on a standby whose master is isolated.
- **Failover requests.** `MaxRequests = 2` and `MaxTerms = 2`. Each way of breaking consensus needs two requests:
  - a repeated request;
  - requests that `get_failover_object` must keep apart (a different backend,
    or a different kind);
  - a vote kept over a change of coordinator.
  The node lists `<<0>>`, `<<1>>`, `<<0, 1>>` and `<<1, 0>>` cover equal-length
  lists with different nodes, and the same nodes in either order.
- **Timers.** They use the code's own durations:
  - 5 s loading, joining, stand-for, coordinator and participate timers;
  - a 1 s initializing timer;
  - a 10 s beacon;
  - command timeouts of 4 or 5 s.

- **Children.** Two children and `reserved_connections = 1` give a child
  that must refuse while the other serves, which is the limit test's
  boundary. The double decrement needs one child to fail and one to hold a
  connection.
  `MaxCounter` (3) bounds the counter, which only the cancel leak drives past
  the number of children.
- **Command tracker.** Three peers are the fewest for a reply to clear an
  earlier peer's slot, with a peer after it. Two commands and three ids let
  a second command be issued while the first waits.
- **Escalation.** `HelperSecs = 4` is the longest a helper can run and still
  be reaped inside the other call's 5 s wait; 5 is the first value at which
  a helper outlives the wait, which is the finding. `MaxCalls = 3` gives an
  escalation, a resignation and a second escalation, so each kind of wait
  meets a running helper. `MaxFaults = 2` is a VIP removal and a link
  failure.
- **Recovery.** Two IPC commands allow an END followed by a second START
  while the first START's timer is pending on R (the first command can end
  on the other node's REJECT before R answers). One child is enough for the
  timer path and the recount (it holds or does not hold a connection);
  `child_max_connections = 2` lets it both end a session and exit. Two
  socket failures let both nodes be lost, which is the only way to reach
  the "no active node" and "sent to no node" results, and let a node fail,
  be lost, rejoin and fail again. START, END and a second START while the
  first START's timer is still listed on R needs three IPC commands; with
  one socket failure that run passes but takes over four minutes, so it is
  not kept. One other node suffices: the counting
  treats all answering nodes alike. Two children make the run take more
  than three minutes; the two-children child paths are checked by
  child_restart.

## Fairness

watchdog_live2 and recovery check liveness properties. The other runs use
`Spec`. The recovery run assumes weak fairness of R's timer step (`RTimer`, which
is `TimerEvents` with its replies) only. The
watchdog's main loop calls `process_wd_func_commands_for_timer_events` on
every iteration at which at least a second has passed since the last
`set_timeout` (watchdog.c:1180). `select()` returns at least once a second,
and `set_timeout` is called only on entering a state or on the expiry of
the previous timeout, never less than a second apart, so the timer events
run again and again whatever the children do. The children get no fairness: a client may stay connected
forever.
The failover_consensus run does not check deadlock: once its requests and
elections are used up, the consensus engine has nothing to do. It reacts
only to requests, and the loop then idles.

The recovery run does not check deadlock: once both IPC commands are
issued and the child has exited, the bounds, not the code, stop the model.

The escalation runs check only a state invariant and assume no fairness.
They do not check deadlock: after a link failure the watchdog exits, and
once the calls and faults are used up and the helpers have exited the
process only idles.

`FairSpec` assumes weak fairness of `Next`. The loop never blocks for long:
`select()` returns at least once a second. A pending packet, connect or
expired timer is therefore handled, and time goes on.

## Not modelled yet, and the plan

Listed by importance:

1. **Failover, end to end.** The standby's side of a forwarded failover
   command: the reply, the IPC timeout, and the last_sent_time timeout of
   `service_unreachable_nodes`, which only failover packets arm.
2. **Equal-second ties in the split-brain tie-break**, and the timing of
   the lifecheck against the election timeouts (a three-node cluster whose
   coordinator is isolated).
3. **The other IPC commands.** The failover indication and the data
   request from the master; node list and runtime variables only read
   state. The failover IPC command is the subject of item 1. A liveness
   run for the IPC command that never finishes, if runs are added.
4. **De-escalation fork failure** and the helpers' commands themselves.
5. **child.c beyond the counter.** The client protocol, authentication, the
   connection pool's contents, idle-connection closing and config reload.
   None of these changes the counter. `ensure_conn_counter_validity` is not
   in this repository.

Also out of scope:

- JSON encoding, authentication keys and configuration checks. The model
  carries records instead.
- pool.h's type definitions, apart from `conn_counter` and `*InRecovery`.
