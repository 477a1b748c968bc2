--------------------------- MODULE OnlineRecovery ---------------------------
(***************************************************************************)
(* The watchdog's side of online recovery (watchdog.c,                     *)
(* process_remote_online_recovery_command and the command timer), composed *)
(* with the children of Child that it must wait for.  A remote pgpool-II   *)
(* sends START_RECOVERY: the watchdog sets *InRecovery = RECOVERY_ONLINE,   *)
(* which stops the children accepting clients, and answers ACCEPT once     *)
(* Req_info->conn_counter is 0 (at once, or on a later 1-second tick), or  *)
(* when recovery_timeout expires, on what ensure_conn_counter_validity      *)
(* says.  END_RECOVERY sets *InRecovery back to RECOVERY_INIT.             *)
(*                                                                         *)
(* ensure_conn_counter_validity is declared in pool.h but not defined in   *)
(* this repository; it is modelled as the count of the connections the     *)
(* children actually hold (EnsureConnCounterValidity).                     *)
(***************************************************************************)
EXTENDS Child

CONSTANTS
    RecoveryTimeout,  \* recovery_timeout > 0
    MaxRecoveries     \* bound on the START_RECOVERY requests received

ASSUME RecoveryTimeout \in BOOLEAN /\ MaxRecoveries \in Nat \ {0}

VARIABLES
    started,     \* START_RECOVERY requests received; the i-th has command id i
    timers,      \* ids of the START commands in g_cluster.wd_timer_commands
    answered,    \* answered[i]: replies sent to the i-th START (history)
    replyType    \* replyType[i]: the last reply sent to it, ACCEPT or REJECT

recVars == <<started, timers, answered, replyType>>

allVars == <<childVars, counter, inRecovery, recVars>>

Ids == 1..MaxRecoveries

RecInit ==
    /\ Init
    /\ started = 0
    /\ timers = {}
    /\ answered = [i \in Ids |-> 0]
    /\ replyType = [i \in Ids |-> "NONE"]

\* Assumed: the number of connections the children really hold.
EnsureConnCounterValidity == Cardinality(Holding)

\* The reply to send for a START that is waiting on the counter:
\* "NONE" keeps waiting.  Models process_wd_command_timer_event and the
\* matching branches of process_remote_online_recovery_command.
ProcessWdCommandTimerEventNoExpiry(expired) ==
    IF counter = 0 THEN "ACCEPT" ELSE "NONE"

ProcessWdCommandTimerEvent(expired) ==
    IF counter = 0 THEN "ACCEPT"
    ELSE IF expired
         THEN IF EnsureConnCounterValidity = 0 THEN "ACCEPT" ELSE "REJECT"
         ELSE "NONE"

\* reply_with_minimal_message(r) to the START with id i.
Reply(i, r) == /\ answered' = [answered EXCEPT ![i] = @ + 1]
               /\ replyType' = [replyType EXCEPT ![i] = r]

\* the answer when the counter is not 0 and recovery_timeout <= 0
RecountVerdict == IF EnsureConnCounterValidity = 0 THEN "ACCEPT" ELSE "REJECT"

\* process_remote_online_recovery_command, START_RECOVERY: rejected while
\* a recovery is in progress; otherwise the children are stopped and the
\* START is answered at once when the counter is 0, after the recount when
\* recovery_timeout <= 0, and else put on the 1-second timer.
RemoteStartRecovery ==
    LET i == started + 1 IN
    /\ started < MaxRecoveries
    /\ started' = i
    /\ IF inRecovery # "RECOVERY_INIT"
       THEN /\ Reply(i, "REJECT")
            /\ UNCHANGED <<inRecovery, timers>>
       ELSE /\ inRecovery' = "RECOVERY_ONLINE"
            /\ IF counter = 0
               THEN /\ Reply(i, "ACCEPT") /\ UNCHANGED timers
               ELSE IF ~RecoveryTimeout
               THEN /\ Reply(i, RecountVerdict) /\ UNCHANGED timers
               ELSE /\ timers' = timers \cup {i}
                    /\ UNCHANGED <<answered, replyType>>
    /\ UNCHANGED <<childVars, counter>>

\* process_remote_online_recovery_command, END_RECOVERY: the children may
\* accept clients again (the timer of a START is left running); the END
\* is answered with ACCEPT.
EndRecovery ==
    /\ inRecovery' = "RECOVERY_INIT"
    /\ UNCHANGED <<childVars, counter, started, timers, answered, replyType>>

\* an END_RECOVERY from the node that started a recovery
RemoteEndRecovery == started > 0 /\ EndRecovery

\* Mutant: a timer is never removed from the list.
RemainingTimersAll(verdict) == timers

\* The timers that stay on the list: those with no reply to send.
RemainingTimers(verdict) == {i \in timers : verdict[i] = "NONE"}

\* process_wd_func_commands_for_timer_events, called from the watchdog's
\* main loop at least once a second: each timer whose recovery_timeout has
\* expired, and each whose counter reads 0, replies and is removed.
TimerEvents ==
    /\ timers # {}
    /\ \E expired \in SUBSET timers :
        LET verdict == [i \in timers |-> ProcessWdCommandTimerEvent(i \in expired)]
            done == {i \in timers : verdict[i] # "NONE"}
        IN /\ done # {}
           /\ timers' = RemainingTimers(verdict)
           /\ answered' = [i \in Ids |-> IF i \in done THEN answered[i] + 1 ELSE answered[i]]
           /\ replyType' = [i \in Ids |-> IF i \in done THEN verdict[i] ELSE replyType[i]]
    /\ UNCHANGED <<childVars, counter, inRecovery, started>>

RecNext ==
    \/ (\E c \in Children : ChildNext(c)) /\ UNCHANGED recVars
    \/ RemoteStartRecovery
    \/ RemoteEndRecovery
    \/ TimerEvents

\* The watchdog process runs its main loop whatever the children do; its
\* select times out every second, so a pending timer is always processed.
RecSpec == RecInit /\ [][RecNext]_allVars /\ WF_allVars(TimerEvents)

-----------------------------------------------------------------------------
\* Every START_RECOVERY is answered at most once: a START answered at once
\* is not put on the timer, and a timer that replied is removed.
AnsweredOnce == \A i \in Ids : answered[i] <= 1

\* Every START_RECOVERY is answered: while a child holds a connection the
\* 1-second timer keeps the START until recovery_timeout expires.
RecoveryAnswered == \A i \in Ids : (started >= i) ~> (answered[i] >= 1)

=============================================================================
