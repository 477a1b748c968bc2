----------------------------- MODULE Escalation -----------------------------
(***************************************************************************)
(* One watchdog node's escalation manager (watchdog.c): start_escalated_node *)
(* and resign_from_escalated_node fork a helper process that brings the    *)
(* delegate IP up (escalation) or down (de-escalation).  Each first waits, *)
(* in sleep(1) steps of at most MAX_SECS_ESC_PROC_EXIT_WAIT seconds, for   *)
(* the opposite helper to exit, then forks regardless.  SIGCHLD sets       *)
(* sigchld_request, and wd_child_signal_handler reaps the helpers and      *)
(* clears their pids.                                                      *)
(*                                                                         *)
(* The module also has the interface monitor's events that concern the     *)
(* delegate IP: NW_IP_IS_REMOVED, on which a coordinator holding the VIP   *)
(* brings it up again, and NW_LINK_IS_INACTIVE, on which a node whose      *)
(* monitored interfaces are all down moves to IN_NW_TROUBLE, resigns (as  *)
(* it leaves COORDINATOR) and exits.                                       *)
(*                                                                         *)
(* The callers (a coordinator gaining or losing quorum, leaving the state) *)
(* are the environment: Escalate and Resign may come at any time, as      *)
(* often as MaxCalls allows.  The helpers' bodies (fork_escalation_process, *)
(* fork_plunging_process) are not in this repository; as the spec says,    *)
(* each runs asynchronously, sets or removes the VIP, and exits.          *)
(***************************************************************************)
EXTENDS Naturals

CONSTANTS
    HelperSecs,      \* the longest a helper runs before it sets or removes the VIP
    MaxCalls,        \* bound: start_escalated_node and resign_from_escalated_node calls
    EscForkMayFail,  \* fork_escalation_process may fail
    MaxFaults        \* bound: VIP removals and interface failures by the environment

ASSUME HelperSecs \in Nat /\ MaxCalls \in Nat /\ EscForkMayFail \in BOOLEAN
       /\ MaxFaults \in Nat

\* MAX_SECS_ESC_PROC_EXIT_WAIT
MaxSecsEscProcExitWait == 5

VARIABLES
    escalated,   \* g_cluster.localNode->escalated
    holdingVip,  \* g_cluster.clusterMasterInfo.holding_vip
    escPid,      \* g_cluster.escalation_pid: the helper's number, or 0
    deEscPid,    \* g_cluster.de_escalation_pid
    helper,      \* helper[h]: the helper forked by call h
    sigchld,     \* sigchld_request
    vip,         \* the delegate IP is assigned on this host
    linkUp,      \* a monitored interface is up
    nwEvent,     \* netlink events not read yet
    pc,          \* where the watchdog process is
    waitSecs,    \* wait_secs of the wait loop being run
    calls,       \* calls so far; call h forks helper h
    faults       \* environment faults so far

vars == <<escalated, holdingVip, escPid, deEscPid, helper, sigchld, vip,
          linkUp, nwEvent, pc, waitSecs, calls, faults>>

\* helper h is forked by call h; the last one by the resignation on the way
\* out of IN_NW_TROUBLE
Helpers == 1..(MaxCalls + 1)

\* the status of a helper: not forked, running, exited (a zombie), reaped
NoHelper == [kind |-> "none", status |-> "none", left |-> 0]

\* a helper just forked
Forked(kind) == [kind |-> kind, status |-> "running", left |-> HelperSecs]

Running(h) == helper[h].status = "running"
Exited(pid) == pid # 0 /\ helper[pid].status = "exited"

Init ==
    /\ escalated = FALSE /\ holdingVip = FALSE
    /\ escPid = 0 /\ deEscPid = 0
    /\ helper = [h \in Helpers |-> NoHelper]
    /\ sigchld = FALSE /\ vip = FALSE /\ linkUp = TRUE /\ nwEvent = {}
    /\ pc = "loop" /\ waitSecs = 0 /\ calls = 0 /\ faults = 0

-----------------------------------------------------------------------------
(* Helpers and time.                                                        *)

\* Time is counted in one-second sleeps of the watchdog.  A helper runs for
\* at most HelperSecs of them: it may exit at any time, and one whose left
\* has run out exits before the next sleep.  It sets the VIP (escalation)
\* or removes it (de-escalation), and its exit raises SIGCHLD.  Removing the VIP makes the kernel send
\* the interface monitor an address-deleted event.
HelperExit(h) ==
    /\ Running(h)
    /\ helper' = [helper EXCEPT ![h].status = "exited"]
    /\ sigchld' = TRUE
    /\ vip' = (helper[h].kind = "esc")
    /\ nwEvent' = IF helper[h].kind = "deesc" /\ vip THEN nwEvent \cup {"IP_REMOVED"}
                  ELSE nwEvent
    /\ UNCHANGED <<escalated, holdingVip, escPid, deEscPid, linkUp, pc, waitSecs,
                   calls, faults>>

\* a second passes for the running helpers (one due to exit has exited)
NoHelperDue == \A h \in Helpers : Running(h) => helper[h].left > 0
Slept(hs) == [h \in Helpers |-> IF hs[h].status = "running"
                                THEN [hs[h] EXCEPT !.left = @ - 1] ELSE hs[h]]

\* wd_child_signal_handler: every exited helper is reaped by waitpid, and
\* the pid it was recorded under is cleared
Reaped(hs) == [h \in Helpers |-> IF hs[h].status = "exited"
                                 THEN [hs[h] EXCEPT !.status = "reaped"] ELSE hs[h]]
ReapedPid(pid) == IF Exited(pid) THEN 0 ELSE pid

\* the main loop's select() times out after a second (or, on the way out,
\* wd_system_will_go_down waits for the helpers)
Tick ==
    /\ pc \in {"loop", "exited"} /\ NoHelperDue /\ \E h \in Helpers : Running(h)
    /\ helper' = Slept(helper)
    /\ UNCHANGED <<escalated, holdingVip, escPid, deEscPid, sigchld, vip, linkUp,
                   nwEvent, pc, waitSecs, calls, faults>>

\* check_signals at the top of the main loop: SIGCHLD was seen
CheckSignals ==
    /\ pc = "loop" /\ sigchld
    /\ sigchld' = FALSE /\ helper' = Reaped(helper)
    /\ escPid' = ReapedPid(escPid) /\ deEscPid' = ReapedPid(deEscPid)
    /\ UNCHANGED <<escalated, holdingVip, vip, linkUp, nwEvent, pc, waitSecs,
                   calls, faults>>

-----------------------------------------------------------------------------
(* start_escalated_node and resign_from_escalated_node.                    *)

\* the pid a wait loop waits for: the opposite helper
AwaitedPid == IF pc = "wait_esc" THEN deEscPid ELSE escPid

\* the loop condition "pid > 0 && wait_secs-- > 0"
WaitGoesOn == AwaitedPid > 0 /\ waitSecs > 0

\* one pass of "while (pid > 0 && wait_secs-- > 0) { if (sigchld_request)
\* wd_child_signal_handler(); sleep(1); }"
WaitSleep ==
    /\ pc \in {"wait_esc", "wait_deesc", "wait_deesc_exit"}
    /\ WaitGoesOn /\ NoHelperDue
    /\ waitSecs' = waitSecs - 1
    /\ sigchld' = FALSE
    /\ helper' = Slept(IF sigchld THEN Reaped(helper) ELSE helper)
    /\ escPid' = IF sigchld THEN ReapedPid(escPid) ELSE escPid
    /\ deEscPid' = IF sigchld THEN ReapedPid(deEscPid) ELSE deEscPid
    /\ UNCHANGED <<escalated, holdingVip, vip, linkUp, nwEvent, pc, calls, faults>>

\* the wait is over: the opposite helper is reaped, or the time is up (the
\* mutant forks without waiting)
WaitOverAtOnce == TRUE
WaitOver == ~WaitGoesOn

\* start_escalated_node is called (a coordinator found quorum); it returns
\* at once when already escalated
Escalate ==
    /\ pc = "loop" /\ calls < MaxCalls /\ ~escalated
    /\ calls' = calls + 1 /\ pc' = "wait_esc" /\ waitSecs' = MaxSecsEscProcExitWait
    /\ UNCHANGED <<escalated, holdingVip, escPid, deEscPid, helper, sigchld, vip,
                   linkUp, nwEvent, faults>>

\* the rest of start_escalated_node: fork the escalation helper; only a
\* successful fork marks the node escalated and holding the VIP
ForkEscalation ==
    /\ pc = "wait_esc" /\ WaitOver
    /\ pc' = "loop" /\ waitSecs' = 0
    /\ \/ /\ helper' = [helper EXCEPT ![calls] = Forked("esc")]
          /\ escPid' = calls /\ escalated' = TRUE /\ holdingVip' = TRUE
       \/ /\ EscForkMayFail
          /\ escPid' = 0
          /\ UNCHANGED <<helper, escalated, holdingVip>>
    /\ UNCHANGED <<deEscPid, sigchld, vip, linkUp, nwEvent, calls, faults>>

\* resign_from_escalated_node is called (quorum lost, or set_state leaving
\* WD_COORDINATOR); it returns at once when not escalated
Resign ==
    /\ pc = "loop" /\ calls < MaxCalls /\ escalated
    /\ calls' = calls + 1 /\ pc' = "wait_deesc" /\ waitSecs' = MaxSecsEscProcExitWait
    /\ UNCHANGED <<escalated, holdingVip, escPid, deEscPid, helper, sigchld, vip,
                   linkUp, nwEvent, faults>>

\* the rest of resign_from_escalated_node: fork the de-escalation helper and
\* mark the node as neither escalated nor holding the VIP
ForkDeEscalation ==
    /\ pc \in {"wait_deesc", "wait_deesc_exit"} /\ WaitOver
    /\ pc' = IF pc = "wait_deesc" THEN "loop" ELSE "exited"
    /\ waitSecs' = 0
    /\ helper' = [helper EXCEPT ![calls] = Forked("deesc")]
    /\ deEscPid' = calls /\ escalated' = FALSE /\ holdingVip' = FALSE
    /\ UNCHANGED <<escPid, sigchld, vip, linkUp, nwEvent, calls, faults>>

-----------------------------------------------------------------------------
(* The interface monitor.                                                   *)

\* the VIP after the NW_IP_IS_REMOVED branch: a node holding the VIP that
\* finds it missing among the local addresses runs wd_IP_up
ReacquiredVip == vip \/ holdingVip

\* read_interface_change_event, then watchdog_state_machine.  Its prologue:
\* with every monitored interface down (any_interface_available) the node
\* goes to WD_IN_NW_TROUBLE.  set_state resigns when it leaves
\* WD_COORDINATOR, and the STATE_CHANGED branch of
\* watchdog_state_machine_nw_error exits with FATAL (wd_system_will_go_down
\* no longer sees a coordinator).  Otherwise the node still has addresses,
\* and a coordinator holding the VIP that it no longer finds brings it up
\* again (wd_IP_up, in the watchdog process itself).
NwEventHandler ==
    /\ pc = "loop"
    /\ \E e \in nwEvent :
         /\ nwEvent' = nwEvent \ {e}
         /\ IF ~linkUp
            THEN /\ IF escalated
                    THEN /\ pc' = "wait_deesc_exit" /\ waitSecs' = MaxSecsEscProcExitWait
                         /\ calls' = calls + 1
                    ELSE /\ pc' = "exited"
                         /\ UNCHANGED <<waitSecs, calls>>
                 /\ UNCHANGED vip
            ELSE /\ vip' = ReacquiredVip
                 /\ UNCHANGED <<pc, waitSecs, calls>>
    /\ UNCHANGED <<escalated, holdingVip, escPid, deEscPid, helper, sigchld, linkUp,
                   faults>>

\* the environment removes the delegate IP from the interface
VipRemoved ==
    /\ vip /\ faults < MaxFaults
    /\ vip' = FALSE /\ nwEvent' = nwEvent \cup {"IP_REMOVED"} /\ faults' = faults + 1
    /\ UNCHANGED <<escalated, holdingVip, escPid, deEscPid, helper, sigchld, linkUp,
                   pc, waitSecs, calls>>

\* every monitored interface goes down (a cable is pulled)
LinkDown ==
    /\ linkUp /\ faults < MaxFaults
    /\ linkUp' = FALSE /\ nwEvent' = nwEvent \cup {"LINK_INACTIVE"} /\ faults' = faults + 1
    /\ UNCHANGED <<escalated, holdingVip, escPid, deEscPid, helper, sigchld, vip,
                   pc, waitSecs, calls>>

-----------------------------------------------------------------------------
\* the steps of the watchdog process
Watchdog ==
    \/ CheckSignals \/ WaitSleep \/ ForkEscalation \/ ForkDeEscalation
    \/ NwEventHandler \/ Tick

Next ==
    \/ Watchdog
    \/ \E h \in Helpers : HelperExit(h)
    \/ Escalate \/ Resign \/ VipRemoved \/ LinkDown

Spec == Init /\ [][Next]_vars

-----------------------------------------------------------------------------
(* Properties.                                                              *)

\* nothing is in flight: no helper runs, no netlink event waits, and the
\* watchdog is not inside start/resign
Quiescent ==
    /\ \A h \in Helpers : ~Running(h)
    /\ nwEvent = {} /\ pc \in {"loop", "exited"}

\* Once the helpers have finished and the watchdog has read the interface
\* events, this host has the delegate IP exactly when the watchdog considers
\* itself escalated.  The waits of start_escalated_node and
\* resign_from_escalated_node must order the helpers, and the NW_IP_IS_REMOVED
\* handler must restore a VIP that a late de-escalation (or anyone) removed.
VipMatchesEscalation == Quiescent => (vip <=> escalated)

=============================================================================
