------------------------- MODULE MC_CommandTracker -------------------------
(* Instances of CommandTracker for TLC: two or three peers, the two kinds  *)
(* of command (answered by ACCEPT/REJECT, and by the peer's INFO).         *)
EXTENDS CommandTracker

MCPeer2 == {1, 2}
MCPeer3 == {1, 2, 3}
MCCmdType == {"STAND_FOR_COORDINATOR", "REQ_INFO"}
MCInfoReplied == {"REQ_INFO"}
=============================================================================
