---------------------------- MODULE MC_Watchdog ----------------------------
(* Clusters of three (MCNode) or two (MCNode2) watchdog nodes; the node of *)
(* the largest id has the highest wd_priority, and all start in the same   *)
(* second.                                                                  *)
EXTENDS Watchdog

MCNode == {1, 2, 3}
MCNode2 == {1, 2}
MCPriority == [n \in MCNode |-> n]
MCStartupTime == [n \in MCNode |-> 0]
MCPriority2 == [n \in MCNode2 |-> n]
MCStartupTime2 == [n \in MCNode2 |-> 0]


CONSTANT MaxChan  \* bound: packets one link holds
\* a bounded channel: no link holds more than this many packets
ChannelBound == \A l \in Links : Len(chan[l]) <= MaxChan
=============================================================================
