------------------------------- MODULE Child -------------------------------
(***************************************************************************)
(* The pgpool-II child processes (protocol/child.c, do_child) and the      *)
(* connection counter they share, Req_info->conn_counter (pool.h).  Each   *)
(* child loops: accept a client (blocked while *InRecovery is              *)
(* RECOVERY_ONLINE), count the connection up, refuse it when the count     *)
(* read back exceeds num_init_children - reserved_connections, get a       *)
(* backend connection, serve the session, count the connection down.  An  *)
(* ereport(ERROR) anywhere in the loop lands in the sigsetjmp block of     *)
(* do_child; SIGINT/SIGQUIT end a child at any point through die and       *)
(* child_exit, whose on_system_exit callback child_will_go_down counts the *)
(* connection down when the static flag "accepted" is set.                 *)
(*                                                                         *)
(* The client protocol, the backend connections and the query loop are     *)
(* abstracted to their outcomes: a cancel request (or a failed reuse of a  *)
(* pooled connection) returns no backend, an error is raised, or a         *)
(* session starts and later ends normally or with an error.                *)
(***************************************************************************)
EXTENDS Naturals, FiniteSets

CONSTANTS
    Children,        \* the child processes (num_init_children of them)
    Reserved,        \* reserved_connections
    MaxConnections,  \* child_max_connections (0: unlimited)
    LifeTime,        \* child_life_time > 0
    RestartRequests, \* failover/failback events set need_to_restart
    Shutdown,        \* pgpool-II may be shut down (SIGINT/SIGQUIT)
    MaxCounter       \* bound on conn_counter (it leaks on cancel requests)

ASSUME Reserved \in Nat /\ MaxConnections \in Nat /\ LifeTime \in BOOLEAN
ASSUME MaxCounter \in Nat /\ RestartRequests \in BOOLEAN /\ Shutdown \in BOOLEAN

VARIABLES
    pc,          \* where each child is in its loop
    accepted,    \* each child's static flag "accepted"
    conns,       \* each child's connections_count
    connected,   \* each child's static flag "connected"
    counter,     \* Req_info->conn_counter
    inRecovery   \* *InRecovery, set by the watchdog (OnlineRecovery)

childVars == <<pc, accepted, conns, connected>>

\* the limit of the check in do_child
Limit == Cardinality(Children) - Reserved

Init ==
    /\ pc = [c \in Children |-> "loop"]
    /\ accepted = [c \in Children |-> FALSE]
    /\ conns = [c \in Children |-> 0]
    /\ connected = [c \in Children |-> FALSE]
    /\ counter = 0
    /\ inRecovery = "RECOVERY_INIT"

\* connection_count_up: conn_counter++ under CONN_COUNTER_SEM.
CountUp(x) == x + 1

\* connection_count_down: conn_counter-- under CONN_COUNTER_SEM, never
\* below zero.
CountDown(x) == IF x > 0 THEN x - 1 ELSE x

\* child_will_go_down, run by child_exit through on_system_exit.
ChildWillGoDown(c, x) == IF accepted[c] THEN CountDown(x) ELSE x

\* child_exit(POOL_EXIT_AND_RESTART): the child exits with counter x before
\* its exit callback, and pgpool-II forks a fresh child in its place.
ExitAndRestart(c, x) ==
    /\ counter' = ChildWillGoDown(c, x)
    /\ pc' = [pc EXCEPT ![c] = "loop"]
    /\ accepted' = [accepted EXCEPT ![c] = FALSE]
    /\ conns' = [conns EXCEPT ![c] = 0]
    /\ connected' = [connected EXCEPT ![c] = FALSE]

\* The end of a connection, with counter x: connections_count is raised
\* when child_max_connections > 0 and the child exits once it reaches it.
ConnectionDone(c, x) ==
    IF MaxConnections > 0 /\ conns[c] + 1 >= MaxConnections
    THEN ExitAndRestart(c, x)
    ELSE /\ counter' = x
         /\ pc' = [pc EXCEPT ![c] = "loop"]
         /\ conns' = [conns EXCEPT ![c] = IF MaxConnections > 0 THEN @ + 1 ELSE @]
         /\ UNCHANGED <<accepted, connected>>

\* The sigsetjmp block of do_child, entered by ereport(ERROR): the counter
\* is counted down if "accepted" is set (the flag itself is left set), the
\* session is cleaned up, and the connection is done.
ErrorRecovery(c) ==
    ConnectionDone(c, IF accepted[c] THEN CountDown(counter) ELSE counter)

\* The top of the accept loop: check_stop_request, check_restart_request
\* (a failover or failback asked the child to restart: it exits and is
\* forked again), accepted = 0, then wait_for_new_connections.
LoopTop(c) ==
    /\ pc[c] = "loop"
    /\ \/ /\ pc' = [pc EXCEPT ![c] = "waiting"]
          /\ accepted' = [accepted EXCEPT ![c] = FALSE]
          /\ UNCHANGED <<conns, connected, counter>>
       \/ RestartRequests /\ ExitAndRestart(c, counter)
    /\ UNCHANGED inRecovery

\* wait_for_new_connections: select, then pause() while *InRecovery is
\* RECOVERY_ONLINE, then accept.
Accept(c) ==
    /\ pc[c] = "waiting" /\ inRecovery # "RECOVERY_ONLINE"
    /\ pc' = [pc EXCEPT ![c] = "accepted"]
    /\ UNCHANGED <<accepted, conns, connected, counter, inRecovery>>

\* select timed out after child_life_time seconds: a child that has served
\* a client exits and is forked again.
LifeTimeExpired(c) ==
    /\ pc[c] = "waiting" /\ LifeTime /\ connected[c]
    /\ ExitAndRestart(c, counter)
    /\ UNCHANGED inRecovery

\* con_count = connection_count_up()
ConnectionCountUp(c) ==
    /\ pc[c] = "accepted" /\ counter < MaxCounter
    /\ counter' = CountUp(counter)
    /\ pc' = [pc EXCEPT ![c] = "counted"]
    /\ UNCHANGED <<accepted, conns, connected, inRecovery>>

\* con_count > num_init_children - reserved_connections
TooManyClients(x) == x > Limit

\* The check of do_child on con_count, which connection_count_up read back
\* after releasing the semaphore, so it may include other children's
\* increments.  A refused client is counted down and the child either
\* goes back to the loop (pool_open failed) or raises "Sorry, too many
\* clients already"; an admitted client sets accepted = 1.
CheckConnectionLimit(c) ==
    /\ pc[c] = "counted"
    /\ IF TooManyClients(counter)
       THEN \/ /\ counter' = CountDown(counter)
               /\ pc' = [pc EXCEPT ![c] = "loop"]
               /\ UNCHANGED <<accepted, conns, connected>>
            \/ ConnectionDone(c, CountDown(counter))
       ELSE /\ accepted' = [accepted EXCEPT ![c] = TRUE]
            /\ pc' = [pc EXCEPT ![c] = "connecting"]
            /\ UNCHANGED <<conns, connected, counter>>
    /\ UNCHANGED inRecovery

\* get_backend_connection returns NULL for a cancel request (cancel_request)
\* or when connect_using_existing_connection fails: do_child closes the
\* frontend and continues the loop, leaving the counter and "accepted" as
\* they are.
CancelRequest(c) ==
    /\ pc' = [pc EXCEPT ![c] = "loop"]
    /\ UNCHANGED <<accepted, conns, connected, counter>>

\* get_connection and get_backend_connection: the startup packet, the
\* authentication and the backend connection either fail with an error,
\* return no backend, or start the session.
GetBackendConnection(c) ==
    /\ pc[c] = "connecting"
    /\ \/ CancelRequest(c)
       \/ ErrorRecovery(c)
       \/ /\ pc' = [pc EXCEPT ![c] = "session"]
          /\ connected' = [connected EXCEPT ![c] = TRUE]
          /\ UNCHANGED <<accepted, conns, counter>>
    /\ UNCHANGED inRecovery

\* The query loop ends: pool_process_query returned other than
\* POOL_CONTINUE (backend_cleanup, then accepted = 0), or raised an error.
SessionEnd(c) ==
    /\ pc[c] = "session"
    /\ \/ /\ pc' = [pc EXCEPT ![c] = "closing"]
          /\ accepted' = [accepted EXCEPT ![c] = FALSE]
          /\ UNCHANGED <<conns, connected, counter>>
       \/ ErrorRecovery(c)
    /\ UNCHANGED inRecovery

\* connection_count_down() after the session, then the
\* child_max_connections test.
CloseConnection(c) ==
    /\ pc[c] = "closing"
    /\ ConnectionDone(c, CountDown(counter))
    /\ UNCHANGED inRecovery

\* die on SIGINT or SIGQUIT: child_exit(POOL_EXIT_NO_RESTART) from the
\* signal handler, at any point of the loop (at the loop top this is also
\* check_stop_request after a SIGTERM).
Die(c) ==
    /\ Shutdown /\ pc[c] # "exited"
    /\ counter' = ChildWillGoDown(c, counter)
    /\ pc' = [pc EXCEPT ![c] = "exited"]
    /\ UNCHANGED <<accepted, conns, connected, inRecovery>>

ChildNext(c) ==
    \/ LoopTop(c) \/ Accept(c) \/ LifeTimeExpired(c) \/ ConnectionCountUp(c)
    \/ CheckConnectionLimit(c) \/ GetBackendConnection(c) \/ SessionEnd(c)
    \/ CloseConnection(c) \/ Die(c)

Next == \E c \in Children : ChildNext(c)

vars == <<childVars, counter, inRecovery>>

Spec == Init /\ [][Next]_vars

-----------------------------------------------------------------------------
\* The children holding a connection the counter has counted.
Holding == {c \in Children : pc[c] \in {"counted", "connecting", "session", "closing"}}

\* conn_counter never counts fewer connections than the children hold:
\* every count_down (sigsetjmp block, session end, refusal, exit callback)
\* matches a count_up of the same connection.
CounterNeverUnder == counter >= Cardinality(Holding)

=============================================================================
